---- MODULE Spec2Model ----
(***************************************************************************)
(* Verification model of arroyo-sql/src/operators.rs: the aggregate        *)
(* projection, its fallible conversion to the two-phase projection, and    *)
(* the operation bodies the two-phase projection derives (bin fold, bin    *)
(* combine, tumbling/sliding finalize, memory add, memory remove).  The    *)
(* generated Rust bodies are modelled by the values they compute.          *)
(*                                                                         *)
(* Rust values are encoded as follows.                                     *)
(*   Option<T>        None is <<>>, Some(x) is <<x>>                       *)
(*   (a, b, ...)      the tuple <<a, b, ...>>; a 1-tuple (a,) is <<a>>     *)
(*   BTreeMap<T, n>   a function from the keys present to their counts     *)
(*   f64 quotient     the reduced fraction <<numerator, denominator>>      *)
(***************************************************************************)
EXTENDS Integers, Sequences, FiniteSets, TLC

VARIABLES
    aggregate_projection, \* the AggregateProjection handed over by the planner
    pc,                   \* the planner's / executor's position
    supports,             \* Option<bool>: the answer of supports_two_phase()
    two_phase,            \* Option<Result<TwoPhaseAggregateProjection>>
    output_struct,        \* Option<StructDef>: AggregateProjection::output_struct()
    two_phase_output_struct, \* Option<StructDef> of the two-phase projection
    current_bin,          \* Option<bin tuple>: the bin a worker is folding
    arg,                  \* Option<bin tuple>: a second worker's partial bin
    whole_bin,            \* Option<bin tuple>: one bin folded over every row
    rows_folded,          \* the number of rows folded in the window so far
    nulls_folded,         \* how many of them had a null in the nullable column
    memory,               \* Option<(usize, (mem, ...))>: sliding-window memory
    live,                 \* the bins added to memory and not yet removed, a
                          \* multiset: each such bin with its number of occurrences
    aggregation,          \* Option<TwoPhaseAggregation>: an aggregate function
                          \* whose derivations are requested one by one
    derived,              \* per derivation, None or Some of how the call ended
    projection_bin_type,  \* Option<syn::Type>: the two-phase projection's bin_type()
    projection_memory_type, \* Option<syn::Type>: its memory_type()
    group_memory,         \* the executor's keyed state: per group, the
                          \* Option<(usize, (mem, ...))> memory of that group
    group_run,            \* per group: the bins live in its memory, the memory
                          \* its calls give when run alone, and its call in flight
    given,                \* Option<Projection>: a projection as it was built
    projection            \* Option<Projection>: that projection after the calls
                          \* of without_window made on it so far

vars == <<aggregate_projection, pc, supports, two_phase, output_struct,
          two_phase_output_struct, current_bin, arg, whole_bin, rows_folded, nulls_folded,
          memory, live, aggregation, derived, projection_bin_type,
          projection_memory_type, group_memory, group_run, given, projection>>

derive_vars == <<aggregation, derived>>
type_vars == <<projection_bin_type, projection_memory_type>>
group_vars == <<group_memory, group_run>>
projection_vars == <<given, projection>>

(***************************************************************************)
(* Bounds of the model.                                                    *)
(***************************************************************************)
MaxAggs == 2      \* aggregates per planned projection
MaxGroups == 1    \* grouping triples per planned projection
MaxRows == 3      \* rows folded in one tumbling window
MaxBinRows == 1   \* rows folded into one bin of a sliding window
MaxLive == 4      \* bins live in one sliding window
MaxGroupLive == 3 \* bins live in the sliding windows of all groups together

(***************************************************************************)
(* Option and Result.                                                      *)
(***************************************************************************)
None == <<>>
Some(x) == <<x>>
Unwrap(o) == o[1]

Ok(x) == [ok |-> TRUE, value |-> <<x>>]
Err == [ok |-> FALSE, value |-> <<>>]

Min2(a, b) == IF a <= b THEN a ELSE b
Max2(a, b) == IF a >= b THEN a ELSE b

(***************************************************************************)
(* Types, columns and expressions (the external collaborators).            *)
(***************************************************************************)
Aggregators == {"Count", "Sum", "Min", "Max", "Avg", "CountDistinct"}

TypeDef(data_type, nullable) == [data_type |-> data_type, nullable |-> nullable]

\* The input expressions of the model: column references into the input row.
\* x is a nullable Int32 column, y a NOT NULL Int32 column, and f, g their
\* Float64 counterparts.
InputExpressions ==
    { [column |-> "x", data_type |-> "Int32", nullable |-> TRUE],
      [column |-> "y", data_type |-> "Int32", nullable |-> FALSE],
      [column |-> "f", data_type |-> "Float64", nullable |-> TRUE],
      [column |-> "g", data_type |-> "Float64", nullable |-> FALSE] }

ExprReturnType(e) == TypeDef(e.data_type, e.nullable)

Column(relation, name) == [relation |-> relation, name |-> name]

\* datafusion's sum_return_type: integers widen to Int64, floats to Float64.
sum_return_type(data_type) ==
    CASE data_type \in {"Int8", "Int16", "Int32", "Int64"} -> "Int64"
      [] data_type \in {"UInt8", "UInt16", "UInt32", "UInt64"} -> "UInt64"
      [] data_type \in {"Float32", "Float64"} -> "Float64"

\* datafusion's avg_return_type: every numeric input averages to Float64.
avg_return_type(data_type) ==
    CASE data_type \in {"Int8", "Int16", "Int32", "Int64", "UInt8", "UInt16",
                        "UInt32", "UInt64", "Float32", "Float64"} -> "Float64"

StructField(name, alias, data_type) ==
    [name |-> name, alias |-> alias, data_type |-> data_type]

\* AggregationExpression::return_type (expressions.rs), from the return type
\* table of the specification.
AggregationReturnType(computation) ==
    LET e == computation.producing_expression IN
    CASE computation.aggregator \in {"Count", "CountDistinct"} -> TypeDef("Int64", FALSE)
      [] computation.aggregator = "Sum" -> TypeDef(sum_return_type(e.data_type), e.nullable)
      [] computation.aggregator \in {"Min", "Max"} -> TypeDef(e.data_type, e.nullable)
      [] computation.aggregator = "Avg" -> TypeDef(avg_return_type(e.data_type), e.nullable)

\* AggregationExpression::allows_two_phase (expressions.rs).
allows_two_phase(computation) == computation.aggregator # "CountDistinct"

\* TryFrom<AggregationExpression> for TwoPhaseAggregation (expressions.rs).
TryIntoTwoPhaseAggregation(computation) ==
    IF computation.aggregator = "CountDistinct"
    THEN Err
    ELSE Ok([incoming_expression |-> computation.producing_expression,
             aggregator |-> computation.aggregator])

(***************************************************************************)
(* impl TwoPhaseAggregation: types.                                        *)
(***************************************************************************)
aggregate_type_def(a) ==
    LET data_type == a.incoming_expression.data_type IN
    CASE a.aggregator = "Count" -> TypeDef("Int64", FALSE)
      [] a.aggregator \in {"Sum", "Avg"} -> TypeDef(sum_return_type(data_type), FALSE)
      [] a.aggregator \in {"Min", "Max"} -> TypeDef(data_type, FALSE)

\* return_type with the Sum arm returning the aggregate type as it is, without
\* the input's nullability.
ReturnTypeSumNeverNull(a) ==
    CASE a.aggregator = "Count" -> TypeDef("Int64", FALSE)
      [] a.aggregator = "Sum" -> aggregate_type_def(a)
      [] a.aggregator \in {"Min", "Max"} -> ExprReturnType(a.incoming_expression)
      [] a.aggregator = "Avg" ->
            TypeDef(avg_return_type(a.incoming_expression.data_type),
                    a.incoming_expression.nullable)
      [] a.aggregator = "CountDistinct" -> TypeDef("Int64", FALSE)

return_type(a) ==
    CASE a.aggregator = "Count" -> TypeDef("Int64", FALSE)
      [] a.aggregator = "Sum" ->
            TypeDef(aggregate_type_def(a).data_type, a.incoming_expression.nullable)
      [] a.aggregator \in {"Min", "Max"} -> ExprReturnType(a.incoming_expression)
      [] a.aggregator = "Avg" ->
            TypeDef(avg_return_type(a.incoming_expression.data_type),
                    a.incoming_expression.nullable)
      [] a.aggregator = "CountDistinct" -> TypeDef("Int64", FALSE)

\* TypeDef::return_type (types.rs): the Rust type of a non-nullable scalar, as
\* a token.
RustType(data_type) ==
    CASE data_type = "Int32" -> "i32"
      [] data_type = "Int64" -> "i64"
      [] data_type = "Float64" -> "f64"

\* Rust types are sequences of tokens, as syn::Type holds them.
aggregate_type(a) == <<RustType(aggregate_type_def(a).data_type)>>

OptionOf(type) == <<"Option", "<">> \o type \o <<">">>

\* bin_type with the bin of a Count over nullable input made optional, as the
\* bins of the other aggregators over nullable input are.
BinTypeNullableCountOptional(a) ==
    LET input_nullable == a.incoming_expression.nullable IN
    CASE a.aggregator = "Count" /\ input_nullable -> OptionOf(<<"i64">>)
      [] a.aggregator = "Count" /\ ~input_nullable -> <<"i64">>
      [] a.aggregator \in {"Sum", "Min", "Max"} /\ input_nullable ->
            OptionOf(aggregate_type(a))
      [] a.aggregator \in {"Sum", "Min", "Max"} /\ ~input_nullable -> aggregate_type(a)
      [] a.aggregator = "Avg" /\ input_nullable ->
            OptionOf(<<"(", "i64", ",">> \o aggregate_type(a) \o <<")">>)
      [] a.aggregator = "Avg" /\ ~input_nullable ->
            <<"(", "i64", ",">> \o aggregate_type(a) \o <<")">>

bin_type(a) ==
    LET input_nullable == a.incoming_expression.nullable IN
    CASE a.aggregator = "Count" -> <<"i64">>
      [] a.aggregator \in {"Sum", "Min", "Max"} /\ input_nullable ->
            OptionOf(aggregate_type(a))
      [] a.aggregator \in {"Sum", "Min", "Max"} /\ ~input_nullable -> aggregate_type(a)
      [] a.aggregator = "Avg" /\ input_nullable ->
            OptionOf(<<"(", "i64", ",">> \o aggregate_type(a) \o <<")">>)
      [] a.aggregator = "Avg" /\ ~input_nullable ->
            <<"(", "i64", ",">> \o aggregate_type(a) \o <<")">>

mem_type(a) ==
    LET input_nullable == a.incoming_expression.nullable
        expr_type == aggregate_type(a)
    IN
    CASE a.aggregator = "Count" -> <<"(", "i64", ",", "i64", ")">>
      [] a.aggregator = "Sum" /\ input_nullable ->
            <<"(", "i64", ",", "i64", ",">> \o OptionOf(expr_type) \o <<")">>
      [] a.aggregator \in {"Min", "Max"} /\ input_nullable ->
            <<"(", "i64", ",", "BTreeMap", "<">> \o expr_type \o <<",", "usize", ">", ")">>
      [] a.aggregator = "Sum" /\ ~input_nullable ->
            <<"(", "i64", ",">> \o expr_type \o <<")">>
      [] a.aggregator \in {"Min", "Max"} /\ ~input_nullable ->
            <<"BTreeMap", "<">> \o expr_type \o <<",", "usize", ">">>
      [] a.aggregator = "Avg" /\ input_nullable ->
            <<"(", "i64", ",", "i64", ",">>
            \o OptionOf(<<"(", "i64", ",">> \o expr_type \o <<")">>) \o <<")">>
      [] a.aggregator = "Avg" /\ ~input_nullable ->
            <<"(", "i64", ",">> \o expr_type \o <<")">>

(***************************************************************************)
(* impl AggregateProjection.                                               *)
(***************************************************************************)
AggregateField(aggregate, field_type) ==
    StructField(aggregate.column.name, aggregate.column.relation, field_type)

GroupByFields(group_bys) ==
    [j \in 1..Len(group_bys) |->
        StructField(group_bys[j].column.name, group_bys[j].column.relation,
                    group_bys[j].typ)]

\* output_struct with the grouping fields collected before the aggregate fields.
GroupsFirstOutputStruct(p) ==
    GroupByFields(p.group_bys)
    \o [i \in 1..Len(p.aggregates) |->
          AggregateField(p.aggregates[i], AggregationReturnType(p.aggregates[i].computation))]

AggregateProjection_output_struct(p) ==
    [i \in 1..Len(p.aggregates) |->
        AggregateField(p.aggregates[i], AggregationReturnType(p.aggregates[i].computation))]
    \o GroupByFields(p.group_bys)

\* supports_two_phase with `any` in place of `all`.
SupportsIfAnyAllows(p) ==
    \E i \in 1..Len(p.aggregates) : allows_two_phase(p.aggregates[i].computation)

supports_two_phase(p) ==
    \A i \in 1..Len(p.aggregates) : allows_two_phase(p.aggregates[i].computation)

(***************************************************************************)
(* impl TryFrom<AggregateProjection> for TwoPhaseAggregateProjection.      *)
(***************************************************************************)
TryFrom(p) ==
    LET converted == [i \in 1..Len(p.aggregates) |->
                        TryIntoTwoPhaseAggregation(p.aggregates[i].computation)]
    IN  IF \E i \in 1..Len(converted) : ~converted[i].ok
        THEN Err
        ELSE Ok([aggregates |->
                    [i \in 1..Len(converted) |->
                        [column |-> p.aggregates[i].column,
                         computation |-> Unwrap(converted[i].value)]],
                 group_bys |-> p.group_bys])

\* The two-phase output_struct typing each aggregate field by the type its
\* bin aggregates in, not by its return type.
TwoPhaseOutputStructOfAggregateTypes(t) ==
    [i \in 1..Len(t.aggregates) |->
        AggregateField(t.aggregates[i], aggregate_type_def(t.aggregates[i].computation))]
    \o GroupByFields(t.group_bys)

TwoPhase_output_struct(t) ==
    [i \in 1..Len(t.aggregates) |->
        AggregateField(t.aggregates[i], return_type(t.aggregates[i].computation))]
    \o GroupByFields(t.group_bys)

\* trailing_comma, as the tokens it contributes: none, or the one comma.
TrailingCommaNever(t) == None

trailing_comma(t) == IF Len(t.aggregates) = 1 THEN Some(",") ELSE None

\* #(#items),* : the items' tokens with a comma between one and the next.
RECURSIVE Separated(_)
Separated(items) ==
    IF Len(items) = 0 THEN <<>>
    ELSE IF Len(items) = 1 THEN items[1]
    ELSE items[1] \o <<",">> \o Separated(Tail(items))

\* The tokens of (#(#items),*#comma).
TupleTokens(items, comma) == <<"(">> \o Separated(items) \o comma \o <<")">>

\* The value of the expression (#(#items),*#comma): parentheses around one
\* item without a comma after it are that item, not a tuple.
TupleExpr(items, comma) ==
    IF Len(items) = 1 /\ comma = None THEN items[1] ELSE items

TwoPhase_bin_type(t) ==
    TupleTokens([i \in 1..Len(t.aggregates) |-> bin_type(t.aggregates[i].computation)],
                trailing_comma(t))

TwoPhase_memory_type(t) ==
    <<"(", "usize", ",">>
    \o TupleTokens([i \in 1..Len(t.aggregates) |-> mem_type(t.aggregates[i].computation)],
                   trailing_comma(t))
    \o <<")">>

(***************************************************************************)
(* Input rows.  A row carries the nullable column x and the NOT NULL       *)
(* column y; evaluating an input expression on a row reads its column, an  *)
(* Option for a nullable expression and a bare value otherwise.            *)
(***************************************************************************)
Values == {3, 5, 7}

Rows == [x : {None} \cup {Some(v) : v \in Values}, y : Values]

Eval(e, row) == row[e.column]

\* `v as #aggregate_type`: a widening numeric cast, which keeps the value.
Cast(v, type) == v

Flatten(o) == IF o = None THEN None ELSE Unwrap(o)

UnwrapOr(o, d) == IF o = None THEN d ELSE Unwrap(o)

RECURSIVE Gcd(_, _)
Gcd(a, b) == IF b = 0 THEN a ELSE Gcd(b, a % b)

Abs(a) == IF a < 0 THEN -a ELSE a

\* (n as f64) / (d as f64): the quotient as a reduced fraction with a positive
\* denominator; a zero divisor gives NaN <<0, 0>> or an infinity <<+-1, 0>>.
F64Div(n, d) ==
    IF d = 0
    THEN <<(IF n > 0 THEN 1 ELSE IF n < 0 THEN -1 ELSE 0), 0>>
    ELSE LET g == Gcd(Abs(n), Abs(d))
             sign == IF d < 0 THEN -1 ELSE 1
         IN  <<sign * (n \div g), sign * (d \div g)>>

(***************************************************************************)
(* impl TwoPhaseAggregation: combine_bin_syn_expr, one operator per match  *)
(* arm.  cur is the generated body's current_bin, new its new_bin.         *)
(***************************************************************************)
\* The nullable Sum combine in which an absent bin on either side absorbs
\* the other.
CombineSumNullableAbsentAbsorbs(cur, new) ==
    CASE cur # None /\ new # None -> Some(Unwrap(cur) + Unwrap(new))
      [] cur = None \/ new = None -> None

CombineSumNullable(cur, new) ==
    CASE cur # None /\ new # None -> Some(Unwrap(cur) + Unwrap(new))
      [] cur # None /\ new = None -> Some(Unwrap(cur))
      [] cur = None /\ new # None -> Some(Unwrap(new))
      [] cur = None /\ new = None -> None

CombineMinNullable(cur, new) ==
    CASE cur # None /\ new # None -> Some(Min2(Unwrap(cur), Unwrap(new)))
      [] cur # None /\ new = None -> Some(Unwrap(cur))
      [] cur = None /\ new # None -> Some(Unwrap(new))
      [] cur = None /\ new = None -> None

\* The nullable Max combine keeping the current bin whenever it is present.
CombineMaxNullableKeepsCurrent(cur, new) ==
    CASE cur # None -> Some(Unwrap(cur))
      [] cur = None /\ new # None -> Some(Unwrap(new))
      [] cur = None /\ new = None -> None

CombineMaxNullable(cur, new) ==
    CASE cur # None /\ new # None -> Some(Max2(Unwrap(cur), Unwrap(new)))
      [] cur # None /\ new = None -> Some(Unwrap(cur))
      [] cur = None /\ new # None -> Some(Unwrap(new))
      [] cur = None /\ new = None -> None

\* The Avg combine with the new bin's count dropped.
CombineAvgNonNullableKeepCount(cur, new) == <<cur[1], cur[2] + new[2]>>

CombineAvgNonNullable(cur, new) == <<cur[1] + new[1], cur[2] + new[2]>>

CombineAvgNullable(cur, new) ==
    CASE cur # None /\ new # None ->
            Some(<<Unwrap(cur)[1] + Unwrap(new)[1], Unwrap(cur)[2] + Unwrap(new)[2]>>)
      [] cur # None /\ new = None -> Some(Unwrap(cur))
      [] cur = None /\ new # None -> Some(Unwrap(new))
      [] cur = None /\ new = None -> None

combine_bin_syn_expr(a, cur, new) ==
    LET input_nullable == a.incoming_expression.nullable IN
    CASE a.aggregator = "Count" -> cur + new
      [] a.aggregator = "Sum" /\ input_nullable -> CombineSumNullable(cur, new)
      [] a.aggregator = "Sum" /\ ~input_nullable -> cur + new
      [] a.aggregator = "Min" /\ input_nullable -> CombineMinNullable(cur, new)
      [] a.aggregator = "Min" /\ ~input_nullable -> Min2(cur, new)
      [] a.aggregator = "Max" /\ input_nullable -> CombineMaxNullable(cur, new)
      [] a.aggregator = "Max" /\ ~input_nullable -> Max2(cur, new)
      [] a.aggregator = "Avg" /\ input_nullable -> CombineAvgNullable(cur, new)
      [] a.aggregator = "Avg" /\ ~input_nullable -> CombineAvgNonNullable(cur, new)

(***************************************************************************)
(* impl TwoPhaseAggregation: bin_syn_expr, one operator per match arm.     *)
(* cur is the generated body's current_bin (an Option of the bin), v the   *)
(* value of the input expression on the row.                               *)
(***************************************************************************)
\* The nullable Count fold counting null values too.
FoldCountNullableCountsNulls(cur, v) == UnwrapOr(cur, 0) + 1

FoldCountNullable(cur, v) ==
    LET count == UnwrapOr(cur, 0)
        addition == IF v # None THEN 1 ELSE 0
    IN  count + addition

FoldCountNonNullable(cur, v) == UnwrapOr(cur, 0) + 1

\* The nullable Sum fold with a null input resetting the bin to absent.
FoldSumNullableNullResets(cur, v, type) ==
    IF v = None THEN None
    ELSE IF Flatten(cur) # None THEN Some(Unwrap(Flatten(cur)) + Cast(Unwrap(v), type))
    ELSE Some(Cast(Unwrap(v), type))

FoldSumNullable(cur, v, type) ==
    CASE Flatten(cur) # None /\ v # None ->
            Some(Unwrap(Flatten(cur)) + Cast(Unwrap(v), type))
      [] Flatten(cur) # None /\ v = None -> Some(Unwrap(Flatten(cur)))
      [] Flatten(cur) = None /\ v # None -> Some(Cast(Unwrap(v), type))
      [] Flatten(cur) = None /\ v = None -> None

FoldSumNonNullable(cur, v, type) ==
    IF cur # None THEN Unwrap(cur) + Cast(v, type) ELSE Cast(v, type)

\* The nullable Min fold with a null folded into an absent bin as the default
\* value 0.
FoldMinNullableNullIsDefault(cur, v) ==
    CASE Flatten(cur) # None /\ v # None -> Some(Min2(Unwrap(Flatten(cur)), Unwrap(v)))
      [] Flatten(cur) # None /\ v = None -> Some(Unwrap(Flatten(cur)))
      [] Flatten(cur) = None /\ v # None -> Some(Unwrap(v))
      [] Flatten(cur) = None /\ v = None -> Some(0)

FoldMinNullable(cur, v) ==
    CASE Flatten(cur) # None /\ v # None -> Some(Min2(Unwrap(Flatten(cur)), Unwrap(v)))
      [] Flatten(cur) # None /\ v = None -> Some(Unwrap(Flatten(cur)))
      [] Flatten(cur) = None /\ v # None -> Some(Unwrap(v))
      [] Flatten(cur) = None /\ v = None -> None

FoldMinNonNullable(cur, v) ==
    IF cur # None THEN Min2(Unwrap(cur), v) ELSE v

FoldMaxNullable(cur, v) ==
    CASE Flatten(cur) # None /\ v # None -> Some(Max2(Unwrap(Flatten(cur)), Unwrap(v)))
      [] Flatten(cur) # None /\ v = None -> Some(Unwrap(Flatten(cur)))
      [] Flatten(cur) = None /\ v # None -> Some(Unwrap(v))
      [] Flatten(cur) = None /\ v = None -> None

FoldMaxNonNullable(cur, v) ==
    IF cur # None THEN Max2(Unwrap(cur), v) ELSE v

\* The nullable Avg fold with a null input counted as a row of value zero.
FoldAvgNullableNullAsZero(cur, v, type) ==
    CASE Flatten(cur) # None /\ v # None ->
            Some(<<Unwrap(Flatten(cur))[1] + 1,
                   Unwrap(Flatten(cur))[2] + Cast(Unwrap(v), type)>>)
      [] Flatten(cur) # None /\ v = None ->
            Some(<<Unwrap(Flatten(cur))[1] + 1, Unwrap(Flatten(cur))[2]>>)
      [] Flatten(cur) = None /\ v # None -> Some(<<1, Cast(Unwrap(v), type)>>)
      [] Flatten(cur) = None /\ v = None -> Some(<<1, 0>>)

FoldAvgNullable(cur, v, type) ==
    CASE Flatten(cur) # None /\ v # None ->
            Some(<<Unwrap(Flatten(cur))[1] + 1,
                   Unwrap(Flatten(cur))[2] + Cast(Unwrap(v), type)>>)
      [] Flatten(cur) # None /\ v = None -> Some(Unwrap(Flatten(cur)))
      [] Flatten(cur) = None /\ v # None -> Some(<<1, Cast(Unwrap(v), type)>>)
      [] Flatten(cur) = None /\ v = None -> None

FoldAvgNonNullable(cur, v, type) ==
    IF cur # None
    THEN <<Unwrap(cur)[1] + 1, Unwrap(cur)[2] + Cast(v, type)>>
    ELSE <<1, Cast(v, type)>>

bin_syn_expr(a, cur, row) ==
    LET expr == Eval(a.incoming_expression, row)
        input_nullable == a.incoming_expression.nullable
    IN
    CASE a.aggregator = "Count" /\ input_nullable -> FoldCountNullable(cur, expr)
      [] a.aggregator = "Count" /\ ~input_nullable -> FoldCountNonNullable(cur, expr)
      [] a.aggregator = "Sum" /\ input_nullable -> FoldSumNullable(cur, expr, aggregate_type(a))
      [] a.aggregator = "Sum" /\ ~input_nullable -> FoldSumNonNullable(cur, expr, aggregate_type(a))
      [] a.aggregator = "Min" /\ input_nullable -> FoldMinNullable(cur, expr)
      [] a.aggregator = "Min" /\ ~input_nullable -> FoldMinNonNullable(cur, expr)
      [] a.aggregator = "Max" /\ input_nullable -> FoldMaxNullable(cur, expr)
      [] a.aggregator = "Max" /\ ~input_nullable -> FoldMaxNonNullable(cur, expr)
      [] a.aggregator = "Avg" /\ input_nullable -> FoldAvgNullable(cur, expr, aggregate_type(a))
      [] a.aggregator = "Avg" /\ ~input_nullable -> FoldAvgNonNullable(cur, expr, aggregate_type(a))

(***************************************************************************)
(* impl TwoPhaseAggregation: bin_aggregating_expression (tumbling          *)
(* finalize of one aggregate's bin).                                       *)
(***************************************************************************)
\* The tumbling finalize with an absent Sum bin finalized as zero.
BinAggregatingAbsentSumIsZero(a, bin) ==
    LET input_nullable == a.incoming_expression.nullable IN
    CASE a.aggregator = "Sum" /\ input_nullable -> IF bin = None THEN Some(0) ELSE bin
      [] a.aggregator = "Sum" /\ ~input_nullable -> bin
      [] a.aggregator \in {"Count", "Min", "Max"} -> bin
      [] a.aggregator = "Avg" /\ input_nullable ->
            IF bin # None THEN Some(F64Div(Unwrap(bin)[2], Unwrap(bin)[1])) ELSE None
      [] a.aggregator = "Avg" /\ ~input_nullable -> F64Div(bin[2], bin[1])

bin_aggregating_expression(a, bin) ==
    LET input_nullable == a.incoming_expression.nullable IN
    CASE a.aggregator \in {"Count", "Sum", "Min", "Max"} -> bin
      [] a.aggregator = "Avg" /\ input_nullable ->
            IF bin # None THEN Some(F64Div(Unwrap(bin)[2], Unwrap(bin)[1])) ELSE None
      [] a.aggregator = "Avg" /\ ~input_nullable -> F64Div(bin[2], bin[1])

(***************************************************************************)
(* impl TwoPhaseAggregateProjection: the bodies over the bin tuple.  cur   *)
(* is the generated body's current_bin (an Option of the bin tuple).       *)
(***************************************************************************)
\* The combine in which the components after the first are combined only
\* when the first components of the two bins differ.
CombineBinSkipsOnEqualFirst(t, cur, new) ==
    IF cur # None
    THEN TupleExpr([i \in 1..Len(t.aggregates) |->
                      IF i > 1 /\ Unwrap(cur)[1] = new[1]
                      THEN Unwrap(cur)[i]
                      ELSE combine_bin_syn_expr(t.aggregates[i].computation,
                                                Unwrap(cur)[i], new[i])],
                   trailing_comma(t))
    ELSE new

TwoPhase_combine_bin_syn_expr(t, cur, new) ==
    IF cur # None
    THEN TupleExpr([i \in 1..Len(t.aggregates) |->
                      combine_bin_syn_expr(t.aggregates[i].computation,
                                           Unwrap(cur)[i], new[i])],
                   trailing_comma(t))
    ELSE new

bin_merger_syn_expression(t, cur, row) ==
    IF cur # None
    THEN TupleExpr([i \in 1..Len(t.aggregates) |->
                      bin_syn_expr(t.aggregates[i].computation, Some(Unwrap(cur)[i]), row)],
                   trailing_comma(t))
    ELSE TupleExpr([i \in 1..Len(t.aggregates) |->
                      bin_syn_expr(t.aggregates[i].computation, None, row)],
                   trailing_comma(t))

\* aggregate_expr: the aggregate outputs followed by the grouping expressions.
aggregate_expr(t, assignments) ==
    assignments \o [j \in 1..Len(t.group_bys) |-> t.group_bys[j].expr]

tumbling_aggregation_syn_expression(t, bin) ==
    aggregate_expr(t,
        [i \in 1..Len(t.aggregates) |->
            bin_aggregating_expression(t.aggregates[i].computation, bin[i])])

(***************************************************************************)
(* arroyo_worker::operators::aggregating_window: the memory helpers the    *)
(* generated bodies call.  Their code is in the worker crate; they are     *)
(* modelled from the memory types of mem_type and the specification's      *)
(* description of memory-add, memory-remove and memory-finalize.           *)
(***************************************************************************)
EmptyMap == [k \in {} |-> 0]

MapInsert(m, k) ==
    [x \in DOMAIN m \cup {k} |->
        IF x = k THEN (IF k \in DOMAIN m THEN m[k] + 1 ELSE 1) ELSE m[x]]

\* One occurrence of k leaves the map; the entry goes with its last occurrence.
MapRemove(m, k) ==
    IF k \notin DOMAIN m THEN m
    ELSE IF m[k] = 1 THEN [x \in DOMAIN m \ {k} |-> m[x]]
    ELSE [m EXCEPT ![k] = @ - 1]

FirstKey(m) ==
    IF DOMAIN m = {} THEN None
    ELSE Some(CHOOSE k \in DOMAIN m : \A o \in DOMAIN m : k <= o)

LastKey(m) ==
    IF DOMAIN m = {} THEN None
    ELSE Some(CHOOSE k \in DOMAIN m : \A o \in DOMAIN m : k >= o)

\* Count: memory (live bins, count).
count_add(current, bin_value) ==
    IF current # None
    THEN <<Unwrap(current)[1] + 1, Unwrap(current)[2] + bin_value>>
    ELSE <<1, bin_value>>

count_remove(current, bin_value) ==
    IF current[1] = 1 THEN None
    ELSE Some(<<current[1] - 1, current[2] - bin_value>>)

count_aggregate(mem) == mem[2]

\* Sum over nullable input: memory (live bins, non-null live bins, Option<sum>).
nullable_sum_add(current, bin_value) ==
    LET bins == IF current = None THEN 0 ELSE Unwrap(current)[1]
        non_null == IF current = None THEN 0 ELSE Unwrap(current)[2]
        sum == IF current = None THEN None ELSE Unwrap(current)[3]
    IN  CASE bin_value = None -> <<bins + 1, non_null, sum>>
          [] bin_value # None /\ sum = None -> <<bins + 1, non_null + 1, bin_value>>
          [] bin_value # None /\ sum # None ->
                <<bins + 1, non_null + 1, Some(Unwrap(sum) + Unwrap(bin_value))>>

nullable_sum_remove(current, bin_value) ==
    CASE current[1] = 1 -> None
      [] current[1] # 1 /\ bin_value = None ->
            Some(<<current[1] - 1, current[2], current[3]>>)
      [] current[1] # 1 /\ bin_value # None /\ current[2] = 1 ->
            Some(<<current[1] - 1, 0, None>>)
      [] current[1] # 1 /\ bin_value # None /\ current[2] # 1 ->
            Some(<<current[1] - 1, current[2] - 1,
                   Some(Unwrap(current[3]) - Unwrap(bin_value))>>)

nullable_sum_aggregate(mem) == mem[3]

\* Sum over non-nullable input: memory (live bins, sum).
non_nullable_sum_add(current, bin_value) ==
    IF current # None
    THEN <<Unwrap(current)[1] + 1, Unwrap(current)[2] + bin_value>>
    ELSE <<1, bin_value>>

non_nullable_sum_remove(current, bin_value) ==
    IF current[1] = 1 THEN None
    ELSE Some(<<current[1] - 1, current[2] - bin_value>>)

non_nullable_sum_aggregate(mem) == mem[2]

\* Min/Max over nullable input: memory (live bins, multiset of the bins'
\* values); a bin without a value adds no key.
nullable_heap_add(current, bin_value) ==
    LET bins == IF current = None THEN 0 ELSE Unwrap(current)[1]
        map == IF current = None THEN EmptyMap ELSE Unwrap(current)[2]
    IN  IF bin_value = None
        THEN <<bins + 1, map>>
        ELSE <<bins + 1, MapInsert(map, Unwrap(bin_value))>>

nullable_heap_remove(current, bin_value) ==
    CASE current[1] = 1 -> None
      [] current[1] # 1 /\ bin_value = None -> Some(<<current[1] - 1, current[2]>>)
      [] current[1] # 1 /\ bin_value # None ->
            Some(<<current[1] - 1, MapRemove(current[2], Unwrap(bin_value))>>)

nullable_min_heap_aggregate(mem) == FirstKey(mem[2])

nullable_max_heap_aggregate(mem) == LastKey(mem[2])

\* Min/Max over non-nullable input: memory is the multiset alone.
non_nullable_heap_add(current, bin_value) ==
    IF current # None THEN MapInsert(Unwrap(current), bin_value)
    ELSE MapInsert(EmptyMap, bin_value)

non_nullable_heap_remove(current, bin_value) ==
    LET map == MapRemove(current, bin_value)
    IN  IF DOMAIN map = {} THEN None ELSE Some(map)

non_nullable_max_heap_aggregate(mem) == Unwrap(LastKey(mem))

\* Avg over nullable input: memory (live bins, non-null live bins,
\* Option<(count, sum)>).
nullable_average_add(current, bin_value) ==
    LET bins == IF current = None THEN 0 ELSE Unwrap(current)[1]
        non_null == IF current = None THEN 0 ELSE Unwrap(current)[2]
        acc == IF current = None THEN None ELSE Unwrap(current)[3]
    IN  CASE bin_value = None -> <<bins + 1, non_null, acc>>
          [] bin_value # None /\ acc = None -> <<bins + 1, non_null + 1, bin_value>>
          [] bin_value # None /\ acc # None ->
                <<bins + 1, non_null + 1,
                  Some(<<Unwrap(acc)[1] + Unwrap(bin_value)[1],
                         Unwrap(acc)[2] + Unwrap(bin_value)[2]>>)>>

nullable_average_remove(current, bin_value) ==
    CASE current[1] = 1 -> None
      [] current[1] # 1 /\ bin_value = None ->
            Some(<<current[1] - 1, current[2], current[3]>>)
      [] current[1] # 1 /\ bin_value # None /\ current[2] = 1 ->
            Some(<<current[1] - 1, 0, None>>)
      [] current[1] # 1 /\ bin_value # None /\ current[2] # 1 ->
            Some(<<current[1] - 1, current[2] - 1,
                   Some(<<Unwrap(current[3])[1] - Unwrap(bin_value)[1],
                          Unwrap(current[3])[2] - Unwrap(bin_value)[2]>>)>>)

\* Avg over non-nullable input: memory is the cumulative (count, sum).
non_nullable_average_add(current, bin_value) ==
    IF current # None
    THEN <<Unwrap(current)[1] + bin_value[1], Unwrap(current)[2] + bin_value[2]>>
    ELSE bin_value

non_nullable_average_remove(current, bin_value) ==
    IF current[1] - bin_value[1] = 0 THEN None
    ELSE Some(<<current[1] - bin_value[1], current[2] - bin_value[2]>>)

(***************************************************************************)
(* impl TwoPhaseAggregation: memory_add_syn_expr, memory_remove_syn_expr   *)
(* and to_aggregating_syn_expression (sliding finalize).                   *)
(***************************************************************************)
memory_add_syn_expr(a, current, bin_value) ==
    LET input_nullable == a.incoming_expression.nullable IN
    CASE a.aggregator = "Count" -> count_add(current, bin_value)
      [] a.aggregator = "Sum" /\ input_nullable -> nullable_sum_add(current, bin_value)
      [] a.aggregator = "Sum" /\ ~input_nullable -> non_nullable_sum_add(current, bin_value)
      [] a.aggregator = "Min" /\ input_nullable -> nullable_heap_add(current, bin_value)
      [] a.aggregator = "Min" /\ ~input_nullable -> non_nullable_heap_add(current, bin_value)
      [] a.aggregator = "Max" /\ input_nullable -> nullable_heap_add(current, bin_value)
      [] a.aggregator = "Max" /\ ~input_nullable -> non_nullable_heap_add(current, bin_value)
      [] a.aggregator = "Avg" /\ input_nullable -> nullable_average_add(current, bin_value)
      [] a.aggregator = "Avg" /\ ~input_nullable -> non_nullable_average_add(current, bin_value)

memory_remove_syn_expr(a, current, bin_value) ==
    LET input_nullable == a.incoming_expression.nullable IN
    CASE a.aggregator = "Count" -> count_remove(current, bin_value)
      [] a.aggregator = "Sum" /\ input_nullable -> nullable_sum_remove(current, bin_value)
      [] a.aggregator = "Sum" /\ ~input_nullable -> non_nullable_sum_remove(current, bin_value)
      [] a.aggregator \in {"Min", "Max"} /\ input_nullable ->
            nullable_heap_remove(current, bin_value)
      [] a.aggregator \in {"Min", "Max"} /\ ~input_nullable ->
            non_nullable_heap_remove(current, bin_value)
      [] a.aggregator = "Avg" /\ input_nullable -> nullable_average_remove(current, bin_value)
      [] a.aggregator = "Avg" /\ ~input_nullable -> non_nullable_average_remove(current, bin_value)

to_aggregating_syn_expression(a, mem) ==
    LET input_nullable == a.incoming_expression.nullable IN
    CASE a.aggregator = "Count" -> count_aggregate(mem)
      [] a.aggregator = "Sum" /\ input_nullable -> nullable_sum_aggregate(mem)
      [] a.aggregator = "Sum" /\ ~input_nullable -> non_nullable_sum_aggregate(mem)
      [] a.aggregator = "Min" /\ input_nullable -> nullable_min_heap_aggregate(mem)
      [] a.aggregator = "Min" /\ ~input_nullable -> non_nullable_max_heap_aggregate(mem)
      [] a.aggregator = "Max" /\ input_nullable -> nullable_max_heap_aggregate(mem)
      [] a.aggregator = "Max" /\ ~input_nullable -> non_nullable_max_heap_aggregate(mem)
      [] a.aggregator = "Avg" /\ input_nullable ->
            IF mem[3] # None THEN Some(F64Div(Unwrap(mem[3])[2], Unwrap(mem[3])[1])) ELSE None
      [] a.aggregator = "Avg" /\ ~input_nullable -> F64Div(mem[2], mem[1])

(***************************************************************************)
(* impl TwoPhaseAggregateProjection: the bodies over the memory.  current  *)
(* is an Option<(usize, (mem, ...))> for memory-add and a bare             *)
(* (usize, (mem, ...)) for memory-remove.                                  *)
(***************************************************************************)
\* memory-add with the first bin counted as 0.
MemoryAddCountsFromZero(t, current, bin_value) ==
    IF current # None
    THEN <<Unwrap(current)[1] + 1,
           [i \in 1..Len(t.aggregates) |->
              memory_add_syn_expr(t.aggregates[i].computation,
                                  Some(Unwrap(current)[2][i]), bin_value[i])]>>
    ELSE <<0,
           [i \in 1..Len(t.aggregates) |->
              memory_add_syn_expr(t.aggregates[i].computation, None, bin_value[i])]>>

\* memory-add starting every aggregate's accumulator afresh on each bin.
MemoryAddRestartsAccumulators(t, current, bin_value) ==
    <<IF current # None THEN Unwrap(current)[1] + 1 ELSE 1,
      TupleExpr([i \in 1..Len(t.aggregates) |->
                   memory_add_syn_expr(t.aggregates[i].computation, None, bin_value[i])],
                trailing_comma(t))>>

memory_add_syn_expression(t, current, bin_value) ==
    IF current # None
    THEN <<Unwrap(current)[1] + 1,
           TupleExpr([i \in 1..Len(t.aggregates) |->
                        memory_add_syn_expr(t.aggregates[i].computation,
                                            Some(Unwrap(current)[2][i]), bin_value[i])],
                     trailing_comma(t))>>
    ELSE <<1,
           TupleExpr([i \in 1..Len(t.aggregates) |->
                        memory_add_syn_expr(t.aggregates[i].computation, None, bin_value[i])],
                     trailing_comma(t))>>

\* memory-remove emptying the memory at counter 0 instead of 1.
MemoryRemoveEmptiesAtZero(t, current, bin_value) ==
    IF current[1] = 0
    THEN None
    ELSE Some(<<current[1] - 1,
                [i \in 1..Len(t.aggregates) |->
                    UnwrapOr(memory_remove_syn_expr(t.aggregates[i].computation,
                                                    current[2][i], bin_value[i]),
                             current[2][i])]>>)

\* memory-remove without the decrement of the live-bin counter.
MemoryRemoveKeepsCounter(t, current, bin_value) ==
    IF current[1] = 1
    THEN None
    ELSE Some(<<current[1],
                [i \in 1..Len(t.aggregates) |->
                    Unwrap(memory_remove_syn_expr(t.aggregates[i].computation,
                                                  current[2][i], bin_value[i]))]>>)

memory_remove_syn_expression(t, current, bin_value) ==
    IF current[1] = 1
    THEN None
    ELSE Some(<<current[1] - 1,
                TupleExpr([i \in 1..Len(t.aggregates) |->
                             Unwrap(memory_remove_syn_expr(t.aggregates[i].computation,
                                                           current[2][i], bin_value[i]))],
                          trailing_comma(t))>>)

sliding_aggregation_syn_expression(t, mem) ==
    aggregate_expr(t,
        [i \in 1..Len(t.aggregates) |->
            to_aggregating_syn_expression(t.aggregates[i].computation, mem[2][i])])

(***************************************************************************)
(* The projections the planner hands over.                                 *)
(***************************************************************************)
SeqsUpTo(S, n) == UNION {[1..k -> S] : k \in 0..n}

AggregationExpressions ==
    [aggregator : Aggregators, producing_expression : InputExpressions]

GroupTypes == {TypeDef("Utf8", FALSE), TypeDef("Int64", TRUE)}

\* The i-th aggregate is output as column c<i>, the j-th grouping column as
\* t.k<j>: the planner names the outputs by their position in the select list.
AggregateColumn(i) == Column(None, <<"c", i>>)
GroupColumn(j) == Column(Some("t"), <<"k", j>>)

AggregateProjections ==
    { [aggregates |-> [i \in 1..Len(as) |->
                          [column |-> AggregateColumn(i), computation |-> as[i]]],
       group_bys |-> [j \in 1..Len(gs) |->
                          [column |-> GroupColumn(j), expr |-> <<"key", j>>, typ |-> gs[j]]]]
      : as \in SeqsUpTo(AggregationExpressions, MaxAggs),
        gs \in SeqsUpTo(GroupTypes, MaxGroups) }

\* The queries run over windows in the model: every two-phase aggregator
\* over the nullable column x and over the NOT NULL column y, alone, and
\* three projections with several aggregates.
XExpr == [column |-> "x", data_type |-> "Int32", nullable |-> TRUE]
YExpr == [column |-> "y", data_type |-> "Int32", nullable |-> FALSE]

Query(computations) ==
    [aggregates |-> [i \in 1..Len(computations) |->
                        [column |-> AggregateColumn(i), computation |-> computations[i]]],
     group_bys |-> <<[column |-> GroupColumn(1), expr |-> <<"key", 1>>,
                      typ |-> TypeDef("Utf8", FALSE)]>>]

Agg(aggregator, e) == [aggregator |-> aggregator, producing_expression |-> e]

WindowedQueries ==
    {Query(<<Agg(g, e)>>) : g \in Aggregators \ {"CountDistinct"}, e \in {XExpr, YExpr}}
    \cup {Query(<<Agg("Min", XExpr), Agg("Sum", XExpr)>>),
          Query(<<Agg("Count", XExpr), Agg("Max", YExpr)>>),
          Query(<<Agg("Count", YExpr), Agg("Avg", YExpr), Agg("Max", YExpr)>>)}

(***************************************************************************)
(* The derivations of one aggregate function, as the calls end: with the   *)
(* value returned, or in the panic of an unimplemented!(), todo!() or      *)
(* unreachable!() (None is a normal return).                               *)
(***************************************************************************)
ArmPanic(a, macro) == IF a.aggregator = "CountDistinct" THEN Some(macro) ELSE None

\* The panic of the first call, or else that of the code after it.
Then(first, rest) == IF first # None THEN first ELSE rest

aggregate_type_def_panic(a) == ArmPanic(a, "unimplemented")

aggregate_type_panic(a) == aggregate_type_def_panic(a)

bin_type_panic(a) == Then(aggregate_type_panic(a), ArmPanic(a, "unimplemented"))

combine_bin_syn_expr_panic(a) == ArmPanic(a, "unreachable")

bin_syn_expr_panic(a) == Then(aggregate_type_panic(a), ArmPanic(a, "unreachable"))

mem_type_panic(a) == Then(aggregate_type_panic(a), ArmPanic(a, "unimplemented"))

memory_add_syn_expr_panic(a) == Then(aggregate_type_panic(a), ArmPanic(a, "todo"))

memory_remove_syn_expr_panic(a) == Then(aggregate_type_panic(a), ArmPanic(a, "todo"))

\* bin_aggregating_expression with the CountDistinct arms returning the bin,
\* as the Count arm does.
BinAggregatingPanicsNever(a) == None

bin_aggregating_expression_panic(a) == ArmPanic(a, "todo")

to_aggregating_syn_expression_panic(a) ==
    Then(aggregate_type_panic(a), ArmPanic(a, "unimplemented"))

return_type_panic(a) == None

\* What a derivation that returns an operation body returns.
Body == "syn::Expr"

Derivations ==
    {"aggregate_type_def", "bin_type", "mem_type", "bin_syn_expr", "combine_bin_syn_expr",
     "memory_add_syn_expr", "memory_remove_syn_expr", "bin_aggregating_expression",
     "to_aggregating_syn_expression", "return_type"}

\* The aggregate functions derived from: every aggregator over the input
\* expressions and over z, a second nullable Int32 column.
DerivedExpressions ==
    InputExpressions \cup {[column |-> "z", data_type |-> "Int32", nullable |-> TRUE]}

TwoPhaseAggregations == [incoming_expression : DerivedExpressions, aggregator : Aggregators]

NoDerivation ==
    /\ aggregation = None
    /\ derived = [d \in Derivations |-> None]

NoTypes ==
    /\ projection_bin_type = None
    /\ projection_memory_type = None

(***************************************************************************)
(* impl Projection.  A projection pairs the i-th field name with the i-th  *)
(* field computation.  schemas::window_type_def is the reserved window     *)
(* marker type, a struct that is not nullable.                             *)
(***************************************************************************)
MaxFields == 3    \* fields per projection

window_type_def == TypeDef("Window", FALSE)

\* The computations of a projection's fields: the columns x and y, the window
\* of the row (of the marker type), and a window that may be missing (of the
\* nullable window type, which is not the marker type).
FieldComputations ==
    { [column |-> "x", data_type |-> "Int32", nullable |-> TRUE],
      [column |-> "y", data_type |-> "Int32", nullable |-> FALSE],
      [column |-> "window", data_type |-> "Window", nullable |-> FALSE],
      [column |-> "left_window", data_type |-> "Window", nullable |-> TRUE] }

FieldNames == {Column(None, "a"), Column(Some("t"), "b")}

Formats == {None, Some("Json")}

Projections ==
    UNION { [field_names : [1..k -> FieldNames],
             field_computations : [1..k -> FieldComputations],
             format : Formats] : k \in 0..MaxFields }

\* without_window keeping the fields of the marker type and dropping the
\* others.
WithoutWindowKeepsWindows(self) ==
    LET pairs == [i \in 1..Len(self.field_computations) |->
                    <<self.field_names[i], self.field_computations[i]>>]
        kept == SelectSeq(pairs, LAMBDA pair : window_type_def = ExprReturnType(pair[2]))
    IN  [field_names |-> [k \in 1..Len(kept) |-> kept[k][1]],
         field_computations |-> [k \in 1..Len(kept) |-> kept[k][2]],
         format |-> self.format]

without_window(self) ==
    LET pairs == [i \in 1..Len(self.field_computations) |->
                    <<self.field_names[i], self.field_computations[i]>>]
        kept == SelectSeq(pairs, LAMBDA pair : window_type_def # ExprReturnType(pair[2]))
    IN  [field_names |-> [k \in 1..Len(kept) |-> kept[k][1]],
         field_computations |-> [k \in 1..Len(kept) |-> kept[k][2]],
         format |-> self.format]

NoProjection ==
    /\ given = None
    /\ projection = None

(***************************************************************************)
(* The executor's keyed state (arroyo-worker): one memory per group.  A    *)
(* call on a group loads that group's memory and stores the result back    *)
(* under the same key.                                                     *)
(***************************************************************************)
Groups == {"g1", "g2"}

KeyedLoad(memories, g) == memories[g]

\* A store that overwrites the one memory all groups share.
KeyedStoreShared(memories, g, mem) == [k \in DOMAIN memories |-> mem]

KeyedStore(memories, g, mem) == [memories EXCEPT ![g] = mem]

Idle == [live |-> EmptyMap, alone |-> None, call |-> None]

NoGroups ==
    /\ group_memory = [g \in Groups |-> None]
    /\ group_run = [g \in Groups |-> Idle]

(***************************************************************************)
(* The planner: it asks whether the projection supports two phases,        *)
(* attempts the conversion, and derives the output schemas.                *)
(***************************************************************************)
NoWindow ==
    /\ current_bin = None
    /\ arg = None
    /\ whole_bin = None
    /\ rows_folded = 0
    /\ nulls_folded = 0
    /\ memory = None
    /\ live = EmptyMap

Init ==
    /\ aggregate_projection \in AggregateProjections
    /\ pc = "plan"
    /\ supports = None
    /\ two_phase = None
    /\ output_struct = None
    /\ two_phase_output_struct = None
    /\ NoTypes
    /\ NoWindow
    /\ NoDerivation
    /\ NoGroups
    /\ NoProjection

SupportsTwoPhase ==
    /\ pc = "plan"
    /\ supports' = Some(supports_two_phase(aggregate_projection))
    /\ pc' = "convert"
    /\ UNCHANGED <<projection_vars,
                   derive_vars, type_vars, group_vars, aggregate_projection,
                   two_phase, output_struct, two_phase_output_struct,
                   current_bin, arg, whole_bin, rows_folded, nulls_folded,
                   memory, live>>

Convert ==
    /\ pc = "convert"
    /\ two_phase' = Some(TryFrom(aggregate_projection))
    /\ pc' = "schema"
    /\ UNCHANGED <<projection_vars,
                   derive_vars, type_vars, group_vars, aggregate_projection,
                   supports, output_struct, two_phase_output_struct,
                   current_bin, arg, whole_bin, rows_folded, nulls_folded,
                   memory, live>>

OutputStruct ==
    /\ pc = "schema"
    /\ output_struct' = Some(AggregateProjection_output_struct(aggregate_projection))
    /\ pc' = IF Unwrap(two_phase).ok THEN "two_phase_schema" ELSE "planned"
    /\ UNCHANGED <<projection_vars,
                   derive_vars, type_vars, group_vars, aggregate_projection,
                   supports, two_phase, two_phase_output_struct, current_bin,
                   arg, whole_bin, rows_folded, nulls_folded, memory, live>>

TwoPhaseOutputStruct ==
    /\ pc = "two_phase_schema"
    /\ two_phase_output_struct' =
            Some(TwoPhase_output_struct(Unwrap(Unwrap(two_phase).value)))
    /\ pc' = "bin_type"
    /\ UNCHANGED <<projection_vars,
                   derive_vars, type_vars, group_vars, aggregate_projection,
                   supports, two_phase, output_struct, current_bin, arg,
                   whole_bin, rows_folded, nulls_folded, memory, live>>

BinType ==
    /\ pc = "bin_type"
    /\ projection_bin_type' = Some(TwoPhase_bin_type(Unwrap(Unwrap(two_phase).value)))
    /\ pc' = "memory_type"
    /\ UNCHANGED <<projection_vars,
                   aggregate_projection, supports, two_phase, output_struct,
                   two_phase_output_struct, current_bin, arg, whole_bin,
                   rows_folded, nulls_folded, memory, live, derive_vars,
                   projection_memory_type, group_vars>>

MemoryType ==
    /\ pc = "memory_type"
    /\ projection_memory_type' = Some(TwoPhase_memory_type(Unwrap(Unwrap(two_phase).value)))
    /\ pc' = "planned"
    /\ UNCHANGED <<projection_vars,
                   aggregate_projection, supports, two_phase, output_struct,
                   two_phase_output_struct, current_bin, arg, whole_bin,
                   rows_folded, nulls_folded, memory, live, derive_vars,
                   projection_bin_type, group_vars>>

Next ==
    \/ SupportsTwoPhase
    \/ Convert
    \/ OutputStruct
    \/ TwoPhaseOutputStruct
    \/ BinType
    \/ MemoryType

Spec == Init /\ [][Next]_vars

(***************************************************************************)
(* The tumbling window of one group: two workers fold the rows of the      *)
(* window into partial bins (bin_merger), and the second worker's bin is   *)
(* combined into the first's (combine_bin).  whole_bin is the bin of a     *)
(* single worker that folds every row of the window.                       *)
(***************************************************************************)
Planned(p) ==
    /\ aggregate_projection = p
    /\ supports = Some(supports_two_phase(p))
    /\ two_phase = Some(TryFrom(p))
    /\ output_struct = Some(AggregateProjection_output_struct(p))
    /\ two_phase_output_struct = Some(TwoPhase_output_struct(Unwrap(TryFrom(p).value)))
    /\ projection_bin_type = Some(TwoPhase_bin_type(Unwrap(TryFrom(p).value)))
    /\ projection_memory_type = Some(TwoPhase_memory_type(Unwrap(TryFrom(p).value)))

Projection == Unwrap(Unwrap(two_phase).value)

TumblingInit ==
    /\ \E p \in WindowedQueries : Planned(p)
    /\ pc = "folding"
    /\ NoWindow
    /\ NoDerivation
    /\ NoGroups
    /\ NoProjection

BinMerger ==
    /\ pc \in {"folding", "combined"}
    /\ rows_folded < MaxRows
    /\ \E row \in Rows :
          /\ current_bin' = Some(bin_merger_syn_expression(Projection, current_bin, row))
          /\ whole_bin' = Some(bin_merger_syn_expression(Projection, whole_bin, row))
          /\ nulls_folded' = nulls_folded + (IF row.x = None THEN 1 ELSE 0)
    /\ rows_folded' = rows_folded + 1
    /\ pc' = "folding"
    /\ UNCHANGED <<projection_vars,
                   derive_vars, type_vars, group_vars, aggregate_projection,
                   supports, two_phase, output_struct, two_phase_output_struct,
                   arg, memory, live>>

RemoteBinMerger ==
    /\ pc \in {"folding", "combined"}
    /\ rows_folded < MaxRows
    /\ \E row \in Rows :
          /\ arg' = Some(bin_merger_syn_expression(Projection, arg, row))
          /\ whole_bin' = Some(bin_merger_syn_expression(Projection, whole_bin, row))
          /\ nulls_folded' = nulls_folded + (IF row.x = None THEN 1 ELSE 0)
    /\ rows_folded' = rows_folded + 1
    /\ pc' = "folding"
    /\ UNCHANGED <<projection_vars,
                   derive_vars, type_vars, group_vars, aggregate_projection,
                   supports, two_phase, output_struct, two_phase_output_struct,
                   current_bin, memory, live>>

CombineBin ==
    /\ pc \in {"folding", "combined"}
    /\ arg # None
    /\ current_bin' = Some(TwoPhase_combine_bin_syn_expr(Projection, current_bin, Unwrap(arg)))
    /\ arg' = None
    /\ pc' = "combined"
    /\ UNCHANGED <<projection_vars,
                   derive_vars, type_vars, group_vars, aggregate_projection,
                   supports, two_phase, output_struct, two_phase_output_struct,
                   whole_bin, rows_folded, nulls_folded, memory, live>>

TumblingNext ==
    \/ BinMerger
    \/ RemoteBinMerger
    \/ CombineBin

TumblingSpec == TumblingInit /\ [][TumblingNext]_vars

(***************************************************************************)
(* The sliding window of one group: closed bins are added to the memory    *)
(* (memory_add) and expiring bins, each added before and not yet removed,  *)
(* are removed from it (memory_remove), in any order.  pc records the call *)
(* made last.                                                              *)
(***************************************************************************)
\* The bins bin_merger produces by folding exactly k rows, k >= 1.
RECURSIVE BinsFolded(_, _)
BinsFolded(t, k) ==
    IF k = 1
    THEN {bin_merger_syn_expression(t, None, row) : row \in Rows}
    ELSE {bin_merger_syn_expression(t, Some(b), row) : b \in BinsFolded(t, k - 1), row \in Rows}

\* The bins a closed window slot can hand to the memory: one to MaxBinRows
\* rows folded.
BinsOf(t) == UNION {BinsFolded(t, k) : k \in 1..MaxBinRows}

RECURSIVE BagSize(_)
BagSize(bag) ==
    IF DOMAIN bag = {} THEN 0
    ELSE LET k == CHOOSE x \in DOMAIN bag : TRUE
         IN  bag[k] + BagSize([x \in DOMAIN bag \ {k} |-> bag[x]])

SlidingInit ==
    /\ \E p \in WindowedQueries : Planned(p)
    /\ pc = "sliding"
    /\ NoWindow
    /\ NoDerivation
    /\ NoGroups
    /\ NoProjection

MemoryAdd ==
    /\ pc \in {"sliding", "added", "removed"}
    /\ BagSize(live) < MaxLive
    /\ \E bin_value \in BinsOf(Projection) :
          /\ memory' = Some(memory_add_syn_expression(Projection, memory, bin_value))
          /\ live' = MapInsert(live, bin_value)
    /\ pc' = "added"
    /\ UNCHANGED <<projection_vars,
                   derive_vars, type_vars, group_vars, aggregate_projection,
                   supports, two_phase, output_struct, two_phase_output_struct,
                   current_bin, arg, whole_bin, rows_folded, nulls_folded>>

MemoryRemove ==
    /\ pc \in {"sliding", "added", "removed"}
    /\ memory # None
    /\ \E bin_value \in DOMAIN live :
          /\ memory' = memory_remove_syn_expression(Projection, Unwrap(memory), bin_value)
          /\ live' = MapRemove(live, bin_value)
    /\ pc' = "removed"
    /\ UNCHANGED <<projection_vars,
                   derive_vars, type_vars, group_vars, aggregate_projection,
                   supports, two_phase, output_struct, two_phase_output_struct,
                   current_bin, arg, whole_bin, rows_folded, nulls_folded>>

SlidingNext ==
    \/ MemoryAdd
    \/ MemoryRemove

SlidingSpec == SlidingInit /\ [][SlidingNext]_vars

(***************************************************************************)
(* The compiler deriving from one aggregate function, built from its two   *)
(* public fields: each derivation is requested once, in any order.         *)
(***************************************************************************)
DeriveInit ==
    /\ aggregate_projection = [aggregates |-> <<>>, group_bys |-> <<>>]
    /\ pc = "derive"
    /\ supports = None
    /\ two_phase = None
    /\ output_struct = None
    /\ two_phase_output_struct = None
    /\ NoTypes
    /\ NoWindow
    /\ aggregation \in {Some(a) : a \in TwoPhaseAggregations}
    /\ derived = [d \in Derivations |-> None]
    /\ NoGroups
    /\ NoProjection

Derive(derivation, panic, value) ==
    /\ pc = "derive"
    /\ derived[derivation] = None
    /\ derived' = [derived EXCEPT ![derivation] =
                      Some([panic |-> panic,
                            value |-> IF panic = None THEN Some(value) ELSE None])]
    /\ UNCHANGED <<projection_vars,
                   aggregate_projection, pc, supports, two_phase,
                   output_struct, two_phase_output_struct, current_bin, arg,
                   whole_bin, rows_folded, nulls_folded, memory, live,
                   aggregation, type_vars, group_vars>>

DeriveAggregateTypeDef ==
    LET a == Unwrap(aggregation)
    IN  Derive("aggregate_type_def", aggregate_type_def_panic(a), aggregate_type_def(a))

DeriveBinType ==
    LET a == Unwrap(aggregation) IN Derive("bin_type", bin_type_panic(a), bin_type(a))

DeriveMemType ==
    LET a == Unwrap(aggregation) IN Derive("mem_type", mem_type_panic(a), mem_type(a))

DeriveBinSynExpr ==
    LET a == Unwrap(aggregation) IN Derive("bin_syn_expr", bin_syn_expr_panic(a), Body)

DeriveCombineBinSynExpr ==
    LET a == Unwrap(aggregation)
    IN  Derive("combine_bin_syn_expr", combine_bin_syn_expr_panic(a), Body)

DeriveMemoryAddSynExpr ==
    LET a == Unwrap(aggregation)
    IN  Derive("memory_add_syn_expr", memory_add_syn_expr_panic(a), Body)

DeriveMemoryRemoveSynExpr ==
    LET a == Unwrap(aggregation)
    IN  Derive("memory_remove_syn_expr", memory_remove_syn_expr_panic(a), Body)

DeriveBinAggregatingExpression ==
    LET a == Unwrap(aggregation)
    IN  Derive("bin_aggregating_expression", bin_aggregating_expression_panic(a), Body)

DeriveToAggregatingSynExpression ==
    LET a == Unwrap(aggregation)
    IN  Derive("to_aggregating_syn_expression", to_aggregating_syn_expression_panic(a), Body)

DeriveReturnType ==
    LET a == Unwrap(aggregation)
    IN  Derive("return_type", return_type_panic(a), return_type(a))

DeriveNext ==
    \/ DeriveAggregateTypeDef
    \/ DeriveBinType
    \/ DeriveMemType
    \/ DeriveBinSynExpr
    \/ DeriveCombineBinSynExpr
    \/ DeriveMemoryAddSynExpr
    \/ DeriveMemoryRemoveSynExpr
    \/ DeriveBinAggregatingExpression
    \/ DeriveToAggregatingSynExpression
    \/ DeriveReturnType

DeriveSpec == DeriveInit /\ [][DeriveNext]_vars

(***************************************************************************)
(* Sliding windows of two groups.  A memory-add or memory-remove call on a *)
(* group begins by loading the group's memory and ends by storing the      *)
(* result; the calls of one group follow one another, those of different   *)
(* groups interleave freely.  group_run[g].alone is the memory the calls   *)
(* of g give when they are applied one after another to g's memory alone.  *)
(***************************************************************************)
GroupsInit ==
    /\ \E p \in WindowedQueries : Planned(p)
    /\ pc = "groups"
    /\ NoWindow
    /\ NoDerivation
    /\ NoGroups
    /\ NoProjection

\* The bins live in the memories of all groups, with those being added.
LiveInGroups ==
    LET Of(g) == BagSize(group_run[g].live)
                 + (IF group_run[g].call # None /\ Unwrap(group_run[g].call).op = "add"
                    THEN 1 ELSE 0)
    IN  Of("g1") + Of("g2")

BeginMemoryAdd(g) ==
    /\ pc = "groups"
    /\ group_run[g].call = None
    /\ LiveInGroups < MaxGroupLive
    /\ \E bin_value \in BinsFolded(Projection, 1) :
          group_run' = [group_run EXCEPT ![g].call =
                          Some([op |-> "add", bin_value |-> bin_value,
                                current |-> KeyedLoad(group_memory, g)])]
    /\ UNCHANGED <<projection_vars,
                   aggregate_projection, pc, supports, two_phase, output_struct,
                   two_phase_output_struct, current_bin, arg, whole_bin,
                   rows_folded, nulls_folded, memory, live, derive_vars,
                   type_vars, group_memory>>

BeginMemoryRemove(g) ==
    /\ pc = "groups"
    /\ group_run[g].call = None
    /\ \E bin_value \in DOMAIN group_run[g].live :
          group_run' = [group_run EXCEPT ![g].call =
                          Some([op |-> "remove", bin_value |-> bin_value,
                                current |-> KeyedLoad(group_memory, g)])]
    /\ UNCHANGED <<projection_vars,
                   aggregate_projection, pc, supports, two_phase, output_struct,
                   two_phase_output_struct, current_bin, arg, whole_bin,
                   rows_folded, nulls_folded, memory, live, derive_vars,
                   type_vars, group_memory>>

EndMemoryAdd(g) ==
    /\ pc = "groups"
    /\ group_run[g].call # None
    /\ Unwrap(group_run[g].call).op = "add"
    /\ LET call == Unwrap(group_run[g].call) IN
          /\ group_memory' =
                KeyedStore(group_memory, g,
                    Some(memory_add_syn_expression(Projection, call.current, call.bin_value)))
          /\ group_run' = [group_run EXCEPT ![g] =
                [live |-> MapInsert(group_run[g].live, call.bin_value),
                 alone |-> Some(memory_add_syn_expression(Projection, group_run[g].alone,
                                                          call.bin_value)),
                 call |-> None]]
    /\ UNCHANGED <<projection_vars,
                   aggregate_projection, pc, supports, two_phase, output_struct,
                   two_phase_output_struct, current_bin, arg, whole_bin,
                   rows_folded, nulls_folded, memory, live, derive_vars,
                   type_vars>>

EndMemoryRemove(g) ==
    /\ pc = "groups"
    /\ group_run[g].call # None
    /\ Unwrap(group_run[g].call).op = "remove"
    /\ LET call == Unwrap(group_run[g].call) IN
          /\ group_memory' =
                KeyedStore(group_memory, g,
                    memory_remove_syn_expression(Projection, Unwrap(call.current),
                                                 call.bin_value))
          /\ group_run' = [group_run EXCEPT ![g] =
                [live |-> MapRemove(group_run[g].live, call.bin_value),
                 alone |-> memory_remove_syn_expression(Projection,
                              Unwrap(group_run[g].alone), call.bin_value),
                 call |-> None]]
    /\ UNCHANGED <<projection_vars,
                   aggregate_projection, pc, supports, two_phase, output_struct,
                   two_phase_output_struct, current_bin, arg, whole_bin,
                   rows_folded, nulls_folded, memory, live, derive_vars,
                   type_vars>>

GroupsNext ==
    \E g \in Groups :
        \/ BeginMemoryAdd(g)
        \/ BeginMemoryRemove(g)
        \/ EndMemoryAdd(g)
        \/ EndMemoryRemove(g)

GroupsSpec == GroupsInit /\ [][GroupsNext]_vars

(***************************************************************************)
(* The windows of one group together: a planned projection runs over a     *)
(* tumbling or over a sliding window.                                      *)
(***************************************************************************)
WindowsInit == TumblingInit \/ SlidingInit

WindowsNext ==
    \/ TumblingNext
    \/ SlidingNext

WindowsSpec == WindowsInit /\ [][WindowsNext]_vars

(***************************************************************************)
(* A projection built from a select list, on which without_window is       *)
(* called, and called again on its result.                                 *)
(***************************************************************************)
ProjectionInit ==
    /\ aggregate_projection = [aggregates |-> <<>>, group_bys |-> <<>>]
    /\ pc = "projection"
    /\ supports = None
    /\ two_phase = None
    /\ output_struct = None
    /\ two_phase_output_struct = None
    /\ NoTypes
    /\ NoWindow
    /\ NoDerivation
    /\ NoGroups
    /\ given \in {Some(p) : p \in Projections}
    /\ projection = given

WithoutWindow ==
    /\ pc \in {"projection", "without_window"}
    /\ projection' = Some(without_window(Unwrap(projection)))
    /\ pc' = IF pc = "projection" THEN "without_window" ELSE "without_window_twice"
    /\ UNCHANGED <<aggregate_projection, supports, two_phase, output_struct,
                   two_phase_output_struct, current_bin, arg, whole_bin,
                   rows_folded, nulls_folded, memory, live, derive_vars,
                   type_vars, group_vars, given>>

ProjectionNext ==
    \/ WithoutWindow

ProjectionSpec == ProjectionInit /\ [][ProjectionNext]_vars

(***************************************************************************)
(* Properties of the planner.                                              *)
(***************************************************************************)
UsesCountDistinct(p) ==
    \E i \in 1..Len(p.aggregates) : p.aggregates[i].computation.aggregator = "CountDistinct"

\* C1: supports_two_phase() is false exactly when some aggregate uses
\* CountDistinct; the conversion to the two-phase projection fails exactly in
\* that case, and otherwise keeps the aggregates (column, aggregator and input
\* expression) in order and the grouping triples unchanged.
TwoPhaseGate ==
    /\ supports # None =>
          (Unwrap(supports) = FALSE <=> UsesCountDistinct(aggregate_projection))
    /\ two_phase # None =>
          /\ ~Unwrap(two_phase).ok <=> UsesCountDistinct(aggregate_projection)
          /\ Unwrap(two_phase).ok =>
                LET t == Unwrap(Unwrap(two_phase).value)
                    p == aggregate_projection
                IN  /\ Len(t.aggregates) = Len(p.aggregates)
                    /\ \A i \in 1..Len(p.aggregates) :
                          /\ t.aggregates[i].column = p.aggregates[i].column
                          /\ t.aggregates[i].computation.aggregator
                                = p.aggregates[i].computation.aggregator
                          /\ t.aggregates[i].computation.incoming_expression
                                = p.aggregates[i].computation.producing_expression
                    /\ t.group_bys = p.group_bys

\* The conversion of a two-aggregate projection whose first aggregate is
\* CountDistinct and whose second is a Sum has been refused.
TwoPhaseGateWitness ==
    /\ two_phase # None
    /\ supports = Some(FALSE)
    /\ ~Unwrap(two_phase).ok
    /\ Len(aggregate_projection.aggregates) = 2
    /\ aggregate_projection.aggregates[1].computation.aggregator = "CountDistinct"
    /\ aggregate_projection.aggregates[2].computation.aggregator = "Sum"

TumblingOutput(bin) == tumbling_aggregation_syn_expression(Projection, bin)

\* C3: for every aggregator but CountDistinct and both nullabilities, when
\* the rows of a window are split between two bins, finalizing the combine of
\* the two bins gives the value that finalizing the one bin folded over all
\* the rows gives: before the combine (computed from the two partial bins),
\* and after it (read from the combined bin).
FoldCombineAgreement ==
    /\ arg # None =>
          TumblingOutput(TwoPhase_combine_bin_syn_expr(Projection, current_bin, Unwrap(arg)))
            = TumblingOutput(Unwrap(whole_bin))
    /\ (pc = "combined" /\ arg = None) =>
          TumblingOutput(Unwrap(current_bin)) = TumblingOutput(Unwrap(whole_bin))

\* A nullable Avg whose two partial bins each hold one non-null value has been
\* combined: (1, 3) and (1, 5) into (2, 8).
FoldCombineAgreementWitness ==
    /\ pc = "combined"
    /\ Len(Projection.aggregates) = 1
    /\ Projection.aggregates[1].computation.aggregator = "Avg"
    /\ Projection.aggregates[1].computation.incoming_expression.nullable
    /\ rows_folded = 2
    /\ current_bin = Some(<<Some(<<2, 8>>)>>)

\* C10: for Sum, Min, Max and Avg over nullable input, folding a null leaves
\* the bin as it was; folding a value v into an absent bin gives present(v),
\* or present((1, v)) for Avg; folding v into present(acc) gives
\* present(acc + v), present(min(acc, v)), present(max(acc, v)) or
\* present((count + 1, sum + v)).  Checked of every bin the window holds and
\* every row that can be folded into it next.
FoldNullSkipping ==
    \A cur \in {current_bin, arg, whole_bin} :
    \A i \in 1..Len(Projection.aggregates) :
    \A row \in Rows :
        LET a == Projection.aggregates[i].computation
            old == IF cur = None THEN None ELSE Unwrap(cur)[i]
            new == bin_merger_syn_expression(Projection, cur, row)[i]
            v == row.x
        IN  (a.incoming_expression.nullable /\ a.aggregator \in {"Sum", "Min", "Max", "Avg"}) =>
              /\ v = None => new = old
              /\ (v # None /\ old = None) =>
                    new = IF a.aggregator = "Avg" THEN Some(<<1, Unwrap(v)>>) ELSE Some(Unwrap(v))
              /\ (v # None /\ old # None) =>
                    new = CASE a.aggregator = "Sum" -> Some(Unwrap(old) + Unwrap(v))
                            [] a.aggregator = "Min" ->
                                  Some(IF Unwrap(v) < Unwrap(old) THEN Unwrap(v) ELSE Unwrap(old))
                            [] a.aggregator = "Max" ->
                                  Some(IF Unwrap(v) > Unwrap(old) THEN Unwrap(v) ELSE Unwrap(old))
                            [] a.aggregator = "Avg" ->
                                  Some(<<Unwrap(old)[1] + 1, Unwrap(old)[2] + Unwrap(v)>>)

\* A nullable Sum bin is present with 8 after folding 3 and 5, and still has
\* room for a further row, null or not.
FoldNullSkippingWitness ==
    /\ Len(Projection.aggregates) = 1
    /\ Projection.aggregates[1].computation.aggregator = "Sum"
    /\ Projection.aggregates[1].computation.incoming_expression.nullable
    /\ current_bin = Some(<<Some(8)>>)
    /\ arg = None
    /\ rows_folded < MaxRows

(***************************************************************************)
(* Properties of the sliding window.                                       *)
(***************************************************************************)
\* The live bins combined into one bin by combine_bin, one after another.
RECURSIVE CombineBins(_, _, _)
CombineBins(t, cur, bag) ==
    IF DOMAIN bag = {} THEN cur
    ELSE LET b == CHOOSE x \in DOMAIN bag : TRUE
         IN  CombineBins(t, Some(TwoPhase_combine_bin_syn_expr(t, cur, b)), MapRemove(bag, b))

Least(S) == CHOOSE k \in S : \A o \in S : k <= o
Greatest(S) == CHOOSE k \in S : \A o \in S : k >= o

IsMinMax(a) == a.aggregator \in {"Min", "Max"}

Extremum(a, S) == IF a.aggregator = "Min" THEN Least(S) ELSE Greatest(S)

\* The values the live bins of a multiset carry for the i-th aggregate, a Min
\* or a Max: the bin itself, or the value of a present bin over nullable input.
CarriedValues(bag, i) ==
    LET a == Projection.aggregates[i].computation IN
    IF a.incoming_expression.nullable
    THEN {Unwrap(b[i]) : b \in {c \in DOMAIN bag : c[i] # None}}
    ELSE {b[i] : b \in DOMAIN bag}

\* The sliding finalize of the i-th aggregate, a Min or a Max, as an Option.
SlidingExtremum(mem, i) ==
    LET a == Projection.aggregates[i].computation
        out == to_aggregating_syn_expression(a, mem[2][i])
    IN  IF a.incoming_expression.nullable THEN out ELSE Some(out)

\* C4: for every aggregator but CountDistinct and both nullabilities, while a
\* bin is live the sliding finalize of the memory equals the tumbling finalize
\* of the combine of exactly the live bins.
SlidingMatchesTumbling ==
    memory # None =>
        sliding_aggregation_syn_expression(Projection, Unwrap(memory))
          = tumbling_aggregation_syn_expression(Projection,
                Unwrap(CombineBins(Projection, None, live)))

\* C5: for both nullabilities, the sliding finalize of a Min is the least key
\* of the memory's multiset and that of a Max the greatest (absent when the
\* multiset of a nullable aggregate holds no key).
MinMaxSlidingExtremum ==
    memory # None =>
        \A i \in 1..Len(Projection.aggregates) :
            LET a == Projection.aggregates[i].computation
                mem == Unwrap(memory)[2][i]
                keys == DOMAIN (IF a.incoming_expression.nullable THEN mem[2] ELSE mem)
            IN  IsMinMax(a) =>
                    SlidingExtremum(Unwrap(memory), i)
                      = IF keys = {} THEN None ELSE Some(Extremum(a, keys))

\* C6: when memory-remove takes out a bin whose value v is the extremum of a
\* Min (Max) over the live bins, the sliding finalize stays at v while another
\* live bin carries v, and otherwise moves to the next least (greatest) live
\* value.
RetractionStep ==
    (memory # None /\ memory' # None /\ BagSize(live') + 1 = BagSize(live)) =>
        \A i \in 1..Len(Projection.aggregates) :
            LET a == Projection.aggregates[i].computation
                removed == CHOOSE b \in DOMAIN live :
                              b \notin DOMAIN live' \/ live'[b] < live[b]
                before == CarriedValues(live, i)
                after == CarriedValues(live', i)
            IN  (/\ IsMinMax(a)
                 /\ CarriedValues([b \in {removed} |-> 1], i) # {}
                 /\ CarriedValues([b \in {removed} |-> 1], i) = {Extremum(a, before)}) =>
                    SlidingExtremum(Unwrap(memory'), i)
                      = IF after = {} THEN None ELSE Some(Extremum(a, after))

MinMaxRetraction == [][RetractionStep]_vars

\* C7: adding any bin to the memory, empty or present, and removing that bin
\* again gives back the memory, live-bin counter included.
AddRemoveInverse ==
    \A b \in BinsOf(Projection) :
        memory_remove_syn_expression(Projection,
            memory_add_syn_expression(Projection, memory, b), b) = memory

\* A bin was added to a nullable Min's memory of two live bins of value 3 and
\* removed again.
AddRemoveInverseWitness ==
    /\ pc = "removed"
    /\ memory # None
    /\ Unwrap(memory)[1] = 2
    /\ Len(Projection.aggregates) = 1
    /\ Projection.aggregates[1].computation.aggregator = "Min"
    /\ Projection.aggregates[1].computation.incoming_expression.nullable
    /\ live = [b \in {<<Some(3)>>} |-> 2]

\* C8: memory-remove returns the empty memory exactly when the live-bin
\* counter is 1, and otherwise a present memory whose counter is one less; no
\* present memory has counter 0.
RemoveEmptiesAtOne ==
    memory # None =>
        /\ Unwrap(memory)[1] >= 1
        /\ \A b \in DOMAIN live :
              LET out == memory_remove_syn_expression(Projection, Unwrap(memory), b)
              IN  /\ out = None <=> Unwrap(memory)[1] = 1
                  /\ out # None => Unwrap(out)[1] = Unwrap(memory)[1] - 1

\* A removal met counter 1 and left the memory of a projection with three
\* aggregates empty.
RemoveEmptiesAtOneWitness ==
    /\ pc = "removed"
    /\ memory = None
    /\ BagSize(live) = 0
    /\ Len(Projection.aggregates) = 3

\* C9: memory-add gives counter 1 on an empty memory and n + 1 on a present
\* memory with counter n, and the counter of a present memory is the number of
\* bins added and not yet removed (an empty memory has none).
CounterCountsLiveBins ==
    /\ memory = None <=> BagSize(live) = 0
    /\ memory # None => Unwrap(memory)[1] = BagSize(live)
    /\ \A b \in BinsOf(Projection) :
          memory_add_syn_expression(Projection, memory, b)[1]
            = IF memory = None THEN 1 ELSE Unwrap(memory)[1] + 1

\* Four bins are live, two of them equal, in the memory of a projection with
\* two aggregates.
CounterCountsLiveBinsWitness ==
    /\ pc = "added"
    /\ memory # None
    /\ Unwrap(memory)[1] = MaxLive
    /\ Len(Projection.aggregates) = 2
    /\ \E b \in DOMAIN live : live[b] = 2

(***************************************************************************)
(* Properties of the bins of a tumbling window, by the rows folded.        *)
(***************************************************************************)
AllRowsNull == rows_folded >= 1 /\ nulls_folded = rows_folded

NullableAggregate(i) == Projection.aggregates[i].computation.incoming_expression.nullable

AggregatorOf(i) == Projection.aggregates[i].computation.aggregator

\* A bin component is absent when its type is an Option and it is None.
IsOptional(type) == Len(type) >= 1 /\ type[1] = "Option"

AbsentBin(i, bin) ==
    /\ IsOptional(bin_type(Projection.aggregates[i].computation))
    /\ bin[i] = None

\* C11 as stated: for every two-phase aggregator over nullable input, the bin
\* folded over one or more rows whose input values are all null is absent.
AllNullFoldAbsentEveryAggregator ==
    AllRowsNull =>
        \A i \in 1..Len(Projection.aggregates) :
            NullableAggregate(i) => AbsentBin(i, Unwrap(whole_bin))

\* C11, amended: for Sum, Min, Max and Avg over nullable input, the bin folded
\* over one or more rows whose input values are all null is absent; the bin of
\* a Count over nullable input is not optional and is then the integer 0.
AllNullFoldAbsent ==
    AllRowsNull =>
        \A i \in 1..Len(Projection.aggregates) :
            NullableAggregate(i) =>
                IF AggregatorOf(i) = "Count"
                THEN ~IsOptional(bin_type(Projection.aggregates[i].computation))
                     /\ Unwrap(whole_bin)[i] = 0
                ELSE AbsentBin(i, Unwrap(whole_bin))

\* Two rows with a null input have been folded by a projection of a nullable
\* Min and a nullable Sum, and both bins are absent.
AllNullFoldAbsentWitness ==
    /\ pc = "folding"
    /\ rows_folded = 2
    /\ nulls_folded = 2
    /\ Len(Projection.aggregates) = 2
    /\ AggregatorOf(1) = "Min" /\ NullableAggregate(1)
    /\ AggregatorOf(2) = "Sum" /\ NullableAggregate(2)
    /\ whole_bin = Some(<<None, None>>)

\* C13: the Count bin is a plain integer; folded from no current bin it
\* starts from 0, and after any sequence of rows it is the number of rows for
\* non-nullable input and the number of non-null input values for nullable
\* input.
CountBinCountsRows ==
    whole_bin # None =>
        \A i \in 1..Len(Projection.aggregates) :
            AggregatorOf(i) = "Count" =>
                /\ Unwrap(whole_bin)[i] \in Nat
                /\ Unwrap(whole_bin)[i]
                      = IF NullableAggregate(i) THEN rows_folded - nulls_folded
                        ELSE rows_folded

\* A nullable Count has folded three rows of which one was null, and a
\* non-nullable Count three rows.
CountBinCountsRowsWitness ==
    /\ rows_folded = 3
    /\ nulls_folded = 1
    /\ Len(Projection.aggregates) = 1
    /\ AggregatorOf(1) = "Count" /\ NullableAggregate(1)
    /\ whole_bin = Some(<<2>>)

\* The bins a tumbling window holds: the two workers' partial bins and the
\* bin folded over every row.
WindowBins == {Unwrap(b) : b \in {c \in {current_bin, arg, whole_bin} : c # None}}

Combine(b1, b2) == TwoPhase_combine_bin_syn_expr(Projection, Some(b1), b2)

\* C14: for every aggregator but CountDistinct and both nullabilities,
\* bin-combine is commutative and associative: the bins of one group combine
\* to the same bin in either order and in either grouping.
CombineCommutativeAssociative ==
    /\ \A b1, b2 \in WindowBins : Combine(b1, b2) = Combine(b2, b1)
    /\ \A b1, b2, b3 \in WindowBins :
          Combine(Combine(b1, b2), b3) = Combine(b1, Combine(b2, b3))

\* A window of a nullable Min and a nullable Sum holds three different bins:
\* one worker's over 3, the other's over 5, and the whole over both.
CombineCommutativeAssociativeWitness ==
    /\ Len(Projection.aggregates) = 2
    /\ AggregatorOf(1) = "Min" /\ NullableAggregate(1)
    /\ AggregatorOf(2) = "Sum" /\ NullableAggregate(2)
    /\ current_bin = Some(<<Some(3), Some(3)>>)
    /\ arg = Some(<<Some(5), Some(5)>>)
    /\ whole_bin = Some(<<Some(3), Some(8)>>)

\* C20: the tumbling finalize returns the bin component of a Count, Sum, Min
\* or Max unchanged, for both nullabilities; the bin of an Avg alone is
\* transformed, into its sum divided by its count (absent when absent).
TumblingFinalizeIdentity ==
    \A bin \in WindowBins :
    \A i \in 1..Len(Projection.aggregates) :
        LET out == tumbling_aggregation_syn_expression(Projection, bin)[i] IN
        CASE AggregatorOf(i) \in {"Count", "Sum", "Min", "Max"} -> out = bin[i]
          [] AggregatorOf(i) = "Avg" /\ NullableAggregate(i) ->
                IF bin[i] = None THEN out = None
                ELSE /\ out = Some(F64Div(Unwrap(bin[i])[2], Unwrap(bin[i])[1]))
                     /\ out # bin[i]
          [] AggregatorOf(i) = "Avg" /\ ~NullableAggregate(i) ->
                /\ out = F64Div(bin[i][2], bin[i][1])
                /\ out # bin[i]

\* The combined bin of a Count, an Avg and a Max over the values 3 and 5 is
\* (2, (2, 8), 5): the finalize keeps 2 and 5 and turns (2, 8) into 4.
TumblingFinalizeIdentityWitness ==
    /\ pc = "combined"
    /\ Len(Projection.aggregates) = 3
    /\ current_bin = Some(<<2, <<2, 8>>, 5>>)
    /\ tumbling_aggregation_syn_expression(Projection, Unwrap(current_bin))[2] = <<4, 1>>

(***************************************************************************)
(* Properties of both windows.                                             *)
(***************************************************************************)
NullRows == {row \in Rows : row.x = None}

\* The bins bin_merger produces by folding exactly k rows, k >= 1, whose
\* nullable column is null.
RECURSIVE NullBinsFolded(_, _)
NullBinsFolded(t, k) ==
    IF k = 1
    THEN {bin_merger_syn_expression(t, None, row) : row \in NullRows}
    ELSE {bin_merger_syn_expression(t, Some(b), row) :
            b \in NullBinsFolded(t, k - 1), row \in NullRows}

NullBinsOf(t) == UNION {NullBinsFolded(t, k) : k \in 1..MaxBinRows}

\* C12: for an Avg over nullable input, when every row of the group is null
\* the finalized output is absent (neither zero nor a quotient by a zero
\* count): the tumbling finalize of the bin folded over the rows, and the
\* sliding finalize of a memory whose live bins were all folded over null
\* rows.
AvgNullIfEmpty ==
    \A i \in 1..Len(Projection.aggregates) :
        (AggregatorOf(i) = "Avg" /\ NullableAggregate(i)) =>
            /\ AllRowsNull => TumblingOutput(Unwrap(whole_bin))[i] = None
            /\ (memory # None /\ DOMAIN live \subseteq NullBinsOf(Projection)) =>
                  sliding_aggregation_syn_expression(Projection, Unwrap(memory))[i] = None

\* The memory of a nullable Avg holds two live bins, both folded over null
\* rows, after a removal.
AvgNullIfEmptyWitness ==
    /\ pc = "removed"
    /\ Len(Projection.aggregates) = 1
    /\ AggregatorOf(1) = "Avg" /\ NullableAggregate(1)
    /\ live = [b \in {<<None>>} |-> 2]
    /\ memory = Some(<<2, <<(<<2, 0, None>>)>>>>)

(***************************************************************************)
(* Properties of the derivations of one aggregate function.                *)
(***************************************************************************)
TwoPhaseDerivations == Derivations \ {"return_type"}

\* C15: for a CountDistinct aggregate of either input nullability, each of
\* the derivations of the aggregate type, the bin type, the memory type,
\* bin-fold, bin-combine, memory-add, memory-remove, the tumbling finalize and
\* the sliding finalize ends in an explicit failure and returns nothing.
CountDistinctDerivationsFail ==
    (aggregation # None /\ Unwrap(aggregation).aggregator = "CountDistinct") =>
        \A d \in TwoPhaseDerivations :
            derived[d] # None =>
                /\ Unwrap(derived[d]).panic # None
                /\ Unwrap(Unwrap(derived[d]).panic) \in {"unimplemented", "todo", "unreachable"}
                /\ Unwrap(derived[d]).value = None

\* All nine derivations have been requested of a CountDistinct over a
\* non-nullable input, and the tumbling finalize ended in todo!().
CountDistinctDerivationsFailWitness ==
    /\ aggregation # None
    /\ Unwrap(aggregation).aggregator = "CountDistinct"
    /\ ~Unwrap(aggregation).incoming_expression.nullable
    /\ \A d \in TwoPhaseDerivations : derived[d] # None
    /\ Unwrap(derived["bin_aggregating_expression"]).panic = Some("todo")

\* C16: the return type is given by the aggregator, the input type and the
\* input nullability alone: Int64 and never nullable for Count and
\* CountDistinct; for Sum the sum-promoted input type (Int32 to Int64, Float64
\* to Float64), nullable exactly when the input is; for Min and Max the
\* input's type and nullability; for Avg the avg-promoted input type
\* (Float64) with the input's nullability.
ReturnTypeTable ==
    (aggregation # None /\ derived["return_type"] # None) =>
        LET a == Unwrap(aggregation)
            e == a.incoming_expression
            out == Unwrap(derived["return_type"])
        IN  /\ out.panic = None
            /\ Unwrap(out.value)
                  = CASE a.aggregator \in {"Count", "CountDistinct"} -> TypeDef("Int64", FALSE)
                      [] a.aggregator = "Sum" ->
                            TypeDef(IF e.data_type = "Int32" THEN "Int64" ELSE "Float64",
                                    e.nullable)
                      [] a.aggregator \in {"Min", "Max"} -> TypeDef(e.data_type, e.nullable)
                      [] a.aggregator = "Avg" -> TypeDef("Float64", e.nullable)

\* The return type of a Sum over the nullable Int32 column z has been
\* derived: a nullable Int64.
ReturnTypeTableWitness ==
    /\ aggregation # None
    /\ Unwrap(aggregation).aggregator = "Sum"
    /\ Unwrap(aggregation).incoming_expression.column = "z"
    /\ derived["return_type"] # None
    /\ Unwrap(derived["return_type"]).value = Some(TypeDef("Int64", TRUE))

(***************************************************************************)
(* Properties of the bin and memory types.  A type is read back from its   *)
(* tokens: a tuple type is a parenthesised list with a comma outside any   *)
(* nested bracket (or the empty list), and its components are the pieces   *)
(* between such commas.                                                    *)
(***************************************************************************)
RECURSIVE SplitAtCommas(_, _, _, _, _)
SplitAtCommas(tokens, i, depth, piece, pieces) ==
    IF i > Len(tokens)
    THEN IF piece = <<>> THEN pieces ELSE Append(pieces, piece)
    ELSE IF tokens[i] = "," /\ depth = 0
         THEN SplitAtCommas(tokens, i + 1, depth, <<>>, Append(pieces, piece))
         ELSE SplitAtCommas(tokens, i + 1,
                            depth + (IF tokens[i] \in {"(", "<"} THEN 1
                                     ELSE IF tokens[i] \in {")", ">"} THEN -1 ELSE 0),
                            Append(piece, tokens[i]), pieces)

RECURSIVE TopLevelCommas(_, _, _)
TopLevelCommas(tokens, i, depth) ==
    IF i > Len(tokens) THEN 0
    ELSE (IF tokens[i] = "," /\ depth = 0 THEN 1 ELSE 0)
         + TopLevelCommas(tokens, i + 1,
                          depth + (IF tokens[i] \in {"(", "<"} THEN 1
                                   ELSE IF tokens[i] \in {")", ">"} THEN -1 ELSE 0))

Inner(type) == SubSeq(type, 2, Len(type) - 1)

IsTupleType(type) ==
    /\ Len(type) >= 2
    /\ type[1] = "(" /\ type[Len(type)] = ")"
    /\ (Inner(type) = <<>> \/ TopLevelCommas(Inner(type), 1, 0) >= 1)

TupleComponents(type) == SplitAtCommas(Inner(type), 1, 0, <<>>, <<>>)

\* Option<T> to T.
Payload(type) == SubSeq(type, 3, Len(type) - 1)

HasPlainShape(v, type) ==
    IF IsTupleType(type)
    THEN Len(v) = Len(TupleComponents(type)) /\ \A k \in 1..Len(v) : v[k] \in Int
    ELSE v \in Int

HasShape(v, type) ==
    IF IsOptional(type)
    THEN v = None \/ (Len(v) = 1 /\ HasPlainShape(v[1], Payload(type)))
    ELSE HasPlainShape(v, type)

\* The bin type of the i-th aggregate, read from the projection's bin type.
BinTypeOf(i) == TupleComponents(Unwrap(projection_bin_type))[i]

\* C17: the bin of an aggregate is optional exactly when the aggregator is
\* Sum, Min, Max or Avg and the input is nullable; the Count bin is a plain
\* i64 for both nullabilities; the Avg bin is a (count, sum) pair; and every
\* bin that fold or combine produces has the shape of its bin type.
BinShapes ==
    \A i \in 1..Len(Projection.aggregates) :
        /\ IsOptional(BinTypeOf(i))
              <=> (AggregatorOf(i) \in {"Sum", "Min", "Max", "Avg"} /\ NullableAggregate(i))
        /\ AggregatorOf(i) = "Count" => BinTypeOf(i) = <<"i64">>
        /\ AggregatorOf(i) = "Avg" =>
              LET pair == IF NullableAggregate(i) THEN Payload(BinTypeOf(i)) ELSE BinTypeOf(i)
              IN  /\ IsTupleType(pair)
                  /\ Len(TupleComponents(pair)) = 2
                  /\ TupleComponents(pair)[1] = <<"i64">>
        /\ \A bin \in WindowBins : HasShape(bin[i], BinTypeOf(i))

\* The bins of a nullable Avg have been combined into the present pair
\* (2, 8), and a nullable Count's bin is the plain integer 1 after a null
\* and a value.
BinShapesWitness ==
    /\ pc = "combined"
    /\ Len(Projection.aggregates) = 1
    /\ AggregatorOf(1) = "Avg" /\ NullableAggregate(1)
    /\ BinTypeOf(1) = <<"Option", "<", "(", "i64", ",", "i64", ")", ">">>
    /\ current_bin = Some(<<Some(<<2, 8>>)>>)

\* C18: with n >= 1 aggregates the bin tuple and the accumulator part of the
\* memory have exactly n components, the i-th being the i-th aggregate's, in
\* the bin type, in the memory type and in the results of fold, combine,
\* memory-add and memory-remove; with one aggregate they are a 1-tuple, not
\* the bare component.
TupleArity ==
    LET n == Len(Projection.aggregates)
        bins == Unwrap(projection_bin_type)
        mems == Unwrap(projection_memory_type)
    IN  /\ IsTupleType(bins)
        /\ Len(TupleComponents(bins)) = n
        /\ \A i \in 1..n :
              TupleComponents(bins)[i] = bin_type(Projection.aggregates[i].computation)
        /\ IsTupleType(mems)
        /\ Len(TupleComponents(mems)) = 2
        /\ TupleComponents(mems)[1] = <<"usize">>
        /\ IsTupleType(TupleComponents(mems)[2])
        /\ Len(TupleComponents(TupleComponents(mems)[2])) = n
        /\ \A i \in 1..n :
              TupleComponents(TupleComponents(mems)[2])[i]
                = mem_type(Projection.aggregates[i].computation)
        /\ n = 1 =>
              /\ bins # <<"(">> \o bin_type(Projection.aggregates[1].computation) \o <<")">>
              /\ bins # bin_type(Projection.aggregates[1].computation)
        /\ \A bin \in WindowBins \cup DOMAIN live :
              /\ Len(bin) = n
              /\ \A i \in 1..n : HasShape(bin[i], TupleComponents(bins)[i])
        /\ memory # None => Len(Unwrap(memory)[2]) = n

\* A removal has left two different bins live in the memory of a projection
\* with the one aggregate Max over non-nullable input, whose bin type is
\* (i32,) and whose memory type is (usize, (BTreeMap<i32, usize>,)).
TupleArityWitness ==
    /\ pc = "removed"
    /\ Len(Projection.aggregates) = 1
    /\ AggregatorOf(1) = "Max" /\ ~NullableAggregate(1)
    /\ projection_bin_type = Some(<<"(", "i32", ",", ")">>)
    /\ projection_memory_type
          = Some(<<"(", "usize", ",", "(", "BTreeMap", "<", "i32", ",", "usize", ">", ",", ")", ")">>)
    /\ memory = Some(<<2, <<(3 :> 1 @@ 5 :> 1)>>>>)

OptionalBin(i) == AggregatorOf(i) \in {"Sum", "Min", "Max", "Avg"} /\ NullableAggregate(i)

\* C21: the absent bin is the identity of bin-combine: for a Sum, Min, Max or
\* Avg over nullable input, combining an absent bin with a bin b in either
\* order yields b and combining two absent bins yields the absent bin; and
\* combining a new bin tuple into an absent current bin tuple yields the new
\* bin tuple unchanged.
AbsentBinIdentity ==
    /\ \A i \in 1..Len(Projection.aggregates) :
          OptionalBin(i) =>
              LET a == Projection.aggregates[i].computation IN
              /\ \A b \in WindowBins :
                    /\ combine_bin_syn_expr(a, None, b[i]) = b[i]
                    /\ combine_bin_syn_expr(a, b[i], None) = b[i]
              /\ combine_bin_syn_expr(a, None, None) = None
    /\ \A b \in WindowBins : TwoPhase_combine_bin_syn_expr(Projection, None, b) = b

\* One worker of a nullable Min and a nullable Sum folded a null row and the
\* other the value 3: their bins, one of them absent in both components, have
\* been combined into the bin of the value alone.
AbsentBinIdentityWitness ==
    /\ pc = "combined"
    /\ Len(Projection.aggregates) = 2
    /\ OptionalBin(1) /\ OptionalBin(2)
    /\ rows_folded = 2 /\ nulls_folded = 1
    /\ current_bin = Some(<<Some(3), Some(3)>>)
    /\ whole_bin = current_bin

(***************************************************************************)
(* Properties of Projection::without_window.                               *)
(***************************************************************************)
IsWindowField(p, i) == ExprReturnType(p.field_computations[i]) = window_type_def

StrictlyIncreasing(f) == \A k, l \in DOMAIN f : k < l => f[k] < f[l]

\* C22: without_window removes exactly the fields whose computed type equals
\* the window marker type: every other field is kept, in its original relative
\* order and still paired with its own name and computation, and the format
\* is unchanged; applying it twice gives the same result as applying it once.
WithoutWindowStripsExactly ==
    pc \in {"without_window", "without_window_twice"} =>
        LET before == Unwrap(given)
            after == Unwrap(projection)
            others == {i \in 1..Len(before.field_computations) : ~IsWindowField(before, i)}
            n == Len(after.field_computations)
        IN  /\ Len(after.field_names) = n
            /\ n = Cardinality(others)
            /\ \A k \in 1..n : ~IsWindowField(after, k)
            /\ \E from \in [1..n -> others] :
                  /\ StrictlyIncreasing(from)
                  /\ \A k \in 1..n :
                        /\ after.field_names[k] = before.field_names[from[k]]
                        /\ after.field_computations[k] = before.field_computations[from[k]]
            /\ after.format = before.format
            /\ without_window(after) = after
            /\ after = without_window(before)

\* Of the three fields t.b: window, a: left_window, t.b: y of a projection
\* with the Json format, two calls have left a: left_window and t.b: y, the
\* nullable window among them.
WithoutWindowStripsExactlyWitness ==
    /\ pc = "without_window_twice"
    /\ Len(Unwrap(given).field_computations) = 3
    /\ IsWindowField(Unwrap(given), 1)
    /\ Unwrap(given).field_names = <<Column(Some("t"), "b"), Column(None, "a"), Column(Some("t"), "b")>>
    /\ Unwrap(given).format = Some("Json")
    /\ Unwrap(projection).field_names = <<Column(None, "a"), Column(Some("t"), "b")>>
    /\ Unwrap(projection).field_computations[1].column = "left_window"
    /\ Unwrap(projection).field_computations[2].column = "y"
    /\ Unwrap(projection).format = Some("Json")

(***************************************************************************)
(* Properties of the components of the bin tuple and of the memory.        *)
(***************************************************************************)
\* The projection of the i-th aggregate alone, with the same grouping.
Alone(i) == [aggregates |-> <<Projection.aggregates[i]>>, group_bys |-> Projection.group_bys]

\* The i-th component of an Option of a bin tuple, as the bin of Alone(i).
OwnBin(cur, i) == IF cur = None THEN None ELSE Some(<<Unwrap(cur)[i]>>)

\* The i-th accumulator of an Option of a memory, as the memory of Alone(i).
OwnMemory(current, i) ==
    IF current = None THEN None
    ELSE Some(<<Unwrap(current)[1], <<Unwrap(current)[2][i]>>>>)

\* C23: in a two-phase projection with several aggregates, the i-th component
\* of the result of bin-fold, bin-combine, memory-add and memory-remove is
\* what the i-th aggregate gives on the i-th components of the operands alone
\* (and, for fold, on the row through its own input expression): no
\* operation on one aggregate's state reads or changes another's component.
ComponentIndependence ==
    \A i \in 1..Len(Projection.aggregates) :
        /\ \A cur \in {None} \cup {Some(b) : b \in WindowBins} : \A row \in Rows :
              bin_merger_syn_expression(Projection, cur, row)[i]
                = bin_merger_syn_expression(Alone(i), OwnBin(cur, i), row)[1]
        /\ \A cur \in {None} \cup {Some(b) : b \in WindowBins} : \A new \in WindowBins :
              TwoPhase_combine_bin_syn_expr(Projection, cur, new)[i]
                = TwoPhase_combine_bin_syn_expr(Alone(i), OwnBin(cur, i), <<new[i]>>)[1]
        /\ \A bin_value \in BinsOf(Projection) :
              memory_add_syn_expression(Projection, memory, bin_value)[2][i]
                = memory_add_syn_expression(Alone(i), OwnMemory(memory, i),
                                            <<bin_value[i]>>)[2][1]
        /\ memory # None =>
              \A bin_value \in DOMAIN live :
                  LET out == memory_remove_syn_expression(Projection, Unwrap(memory),
                                                          bin_value)
                      own == memory_remove_syn_expression(Alone(i),
                                 Unwrap(OwnMemory(memory, i)), <<bin_value[i]>>)
                  IN  /\ out = None <=> own = None
                      /\ out # None => Unwrap(out)[2][i] = Unwrap(own)[2][1]

\* The memory of a nullable Count and a Max over non-nullable input holds
\* two live bins after a removal: a null row's bin (0, 7) and the bin (1, 3),
\* whose first components differ while the Max accumulator holds both values.
ComponentIndependenceWitness ==
    /\ pc = "removed"
    /\ Len(Projection.aggregates) = 2
    /\ AggregatorOf(1) = "Count" /\ NullableAggregate(1)
    /\ AggregatorOf(2) = "Max" /\ ~NullableAggregate(2)
    /\ live = (<<0, 7>> :> 1 @@ <<1, 3>> :> 1)
    /\ memory = Some(<<2, <<(<<2, 1>>), (3 :> 1 @@ 7 :> 1)>>>>)

(***************************************************************************)
(* Properties of memory-remove while another bin is live.                  *)
(***************************************************************************)
\* C24: memory-remove never fails on a present memory whose live-bin counter
\* is at least 2: for a bin added before and not yet removed, the removal of
\* each aggregate yields a present accumulator, for every aggregator but
\* CountDistinct and both nullabilities, bins without a non-null value
\* included.
RemoveKeepsAccumulators ==
    (memory # None /\ Unwrap(memory)[1] >= 2) =>
        \A bin_value \in DOMAIN live :
        \A i \in 1..Len(Projection.aggregates) :
            memory_remove_syn_expr(Projection.aggregates[i].computation,
                                   Unwrap(memory)[2][i], bin_value[i]) # None

\* After a removal the memory of a nullable Min and a nullable Sum holds two
\* live bins, one of the value 5 and one of a null row, absent in both
\* components: removing either leaves the other live.
RemoveKeepsAccumulatorsWitness ==
    /\ pc = "removed"
    /\ Len(Projection.aggregates) = 2
    /\ OptionalBin(1) /\ OptionalBin(2)
    /\ memory # None
    /\ Unwrap(memory)[1] = 2
    /\ live = (<<None, None>> :> 1 @@ <<Some(5), Some(5)>> :> 1)
    /\ memory_remove_syn_expression(Projection, Unwrap(memory), <<Some(5), Some(5)>>)
          = Some(<<1, <<(<<1, EmptyMap>>), (<<1, 0, None>>)>>>>)

(***************************************************************************)
(* Properties of the two output schemas of a converted projection.         *)
(***************************************************************************)
\* C25: for every aggregate projection whose conversion to the two-phase form
\* succeeds, the output schema of the two-phase projection equals that of the
\* one-phase projection it was converted from: same field count, same names
\* and relations, same order, and the same type and nullability per field.
TwoPhaseSchemaAgrees ==
    (two_phase_output_struct # None) =>
        /\ Unwrap(two_phase).ok
        /\ output_struct # None
        /\ LET one == Unwrap(output_struct)
               two == Unwrap(two_phase_output_struct)
           IN  /\ Len(two) = Len(one)
               /\ \A k \in 1..Len(one) :
                     /\ two[k].name = one[k].name
                     /\ two[k].alias = one[k].alias
                     /\ two[k].data_type.data_type = one[k].data_type.data_type
                     /\ two[k].data_type.nullable = one[k].data_type.nullable

\* Both schemas have been derived for a Sum over the nullable Int32 column
\* and an Avg over the NOT NULL Float64 column, grouped by a nullable Int64
\* key: a nullable Int64, a Float64 that is not nullable, and the key.
TwoPhaseSchemaAgreesWitness ==
    /\ pc = "planned"
    /\ two_phase_output_struct # None
    /\ Len(aggregate_projection.aggregates) = 2
    /\ aggregate_projection.aggregates[1].computation.aggregator = "Sum"
    /\ aggregate_projection.aggregates[1].computation.producing_expression.column = "x"
    /\ aggregate_projection.aggregates[2].computation.aggregator = "Avg"
    /\ aggregate_projection.aggregates[2].computation.producing_expression.column = "g"
    /\ Len(Unwrap(two_phase_output_struct)) = 3
    /\ Unwrap(two_phase_output_struct)[1].data_type = TypeDef("Int64", TRUE)
    /\ Unwrap(two_phase_output_struct)[2].data_type = TypeDef("Float64", FALSE)
    /\ Unwrap(two_phase_output_struct)[3].data_type = TypeDef("Int64", TRUE)

====
